---- MODULE Spec2Model ----
(***************************************************************************)
(* Sonic: audio fingerprint store, ingestion and matcher.                  *)
(*                                                                         *)
(* The store is the PostgreSQL schema of the migration (songs and          *)
(* fingerprints tables), written and read by DatabaseService; ingestion    *)
(* is ShazamService.addSong; identification is SongMatcher.identifySong.   *)
(*                                                                         *)
(* Time offsets are kept as spectrogram frame indices t; the program       *)
(* stores t * HOP_LENGTH / SAMPLE_RATE seconds.  Every comparison the      *)
(* matcher makes on seconds is made here on the same rational numbers,     *)
(* cross-multiplied to integers.                                           *)
(***************************************************************************)
EXTENDS Integers, Sequences, FiniteSets, TLC

VARIABLES
    songs,          \* ids of the rows of table songs
    fingerprints,   \* table fingerprints in heap order: rows [id, songId, hashValue, timeOffset]
    nextSongId,     \* songs.id SERIAL
    nextFpId,       \* fingerprints.id SERIAL
    ing,            \* per ingestion request: [pc, fps, songId, i, writes]
    idPc,           \* identification request: "idle", "lookup", "done"
    query,          \* queryFingerprints of the identification
    idPos,          \* loop index i of findPotentialMatches
    postings,       \* rows returned by the last findMany
    batchMatches,   \* result of the last findMatchingFingerprints
    matches,        \* matches accumulated by findPotentialMatches
    alignmentScores,\* the Map built by calculateAlignmentScores, in insertion order
    result,         \* result of SongMatcher.identifySong
    deleted,        \* ids of songs whose delete has completed
    ingested,       \* songId -> the fingerprint list of a recording that reached Ready
    songKey,        \* songId -> the (artist, title) of the row of table songs
    svc,            \* ShazamService.identifySong: [pc, response, analytics]
    bulk,           \* the bulk processor run: options, semaphore, per-file position, counters
    dsp,            \* the signal pass under study: its input and what it returned
    boot,           \* startServer and connectToDatabase: position, attempts, outcome
    scratch,        \* the directory of the audio files: clock, temporary files, passes
    userQueries     \* the rows of user_queries, and the matches identifySong returned

vars == <<songs, fingerprints, nextSongId, nextFpId, ing, idPc, query, idPos,
          postings, batchMatches, matches, alignmentScores, result, deleted, ingested,
          songKey, svc, bulk, dsp, boot, scratch, userQueries>>

dbVars == <<songs, fingerprints, nextSongId, nextFpId>>
idVars == <<idPc, query, idPos, postings, batchMatches, matches, alignmentScores, result>>
otherVars == <<svc, bulk, dsp>>
envVars == <<boot, scratch, userQueries>>

----------------------------------------------------------------------------
(* Program constants *)

MIN_MATCHES == 5
CONFIDENCE_THRESHOLD_INV == 10      \* CONFIDENCE_THRESHOLD = 0.1 = 1 / 10
TIME_ALIGNMENT_TOLERANCE_INV == 10  \* TIME_ALIGNMENT_TOLERANCE = 0.1 s = 1 / 10 s
HOP_LENGTH == 1024
SAMPLE_RATE == 22050
INSERT_BATCH_SIZE == 1000           \* batchSize of addFingerprints
LOOKUP_BATCH_SIZE == 100            \* batchSize of findPotentialMatches
MAX_CONCURRENT == 2                 \* default of maxConcurrent, the documented C_ING
WINDOW_SIZE == 4096
MIN_HASH_TIME_DELTA_INV == 2        \* MIN_HASH_TIME_DELTA = 0.5 s = 1 / 2 s
MAX_HASH_TIME_DELTA == 3            \* seconds
PEAK_NEIGHBORHOOD_SIZE == 20
MIN_AMPLITUDE == 15
FANOUT == 3
FANOUT_OF_SERVICE_COPY == 15        \* FANOUT of the AudioFingerprinter in audio-fingerprinter.service.ts
MAX_PEAKS == 10000                  \* peaks.slice(0, 10000)

(* Bounds of the model *)

MaxLen == 5         \* longest fingerprint list of a small recording
MaxSongs == 2       \* ingestion requests (songs created) in one run
MaxBatches == 1     \* full insert batches of the longest recording
MaxBatchLen == 2001 \* longest list whose batching is followed write by write
MaxOver == 1        \* fingerprints by which a query may exceed one lookup batch
MaxFiles == 3       \* audio files in the directory of a bulk run
MaxHops == 11       \* hops after the first window in the longest sample array
MaxDropped == 2     \* peaks by which the scan of a spectrogram may exceed MAX_PEAKS
MaxPeriod == 3      \* longest period of the magnitudes along a scan
MaxPeaks == 5       \* peaks in a list handed to the pair hasher
MaxRetries == 5     \* greatest maxRetries of connectToDatabase (its default is 5)
MaxQueries == 2     \* identify requests that are answered in one behaviour
MaxClock == 1       \* greatest value of Date.now(), in milliseconds after the first

Requests == 1..MaxSongs

\* The ingestion pipelines that may exist at once: one more than Requests.
Pipelines == 1..(MaxSongs + 1)

----------------------------------------------------------------------------
(* Arithmetic helpers *)

Max(S) == CHOOSE x \in S : \A y \in S : y <= x
Min(S) == CHOOSE x \in S : \A y \in S : x <= y
Abs(x) == IF x < 0 THEN -x ELSE x

\* Math.round(a / b) for b > 0: the nearest integer, halves towards +infinity.
RoundDiv(a, b) == (2 * a + b) \div (2 * b)

\* The members of a set I of indices of 1..n in increasing order, as a sequence.
SortedIdx(I, n) == SelectSeq([i \in 1..n |-> i], LAMBDA i : i \in I)

\* slice as it would be with the end index taken as inclusive.
Slice_EndInclusive(s, i, n) == SubSeq(s, i + 1, Min({i + n + 1, Len(s)}))

\* slice(i, i + n) of a JavaScript array (i is 0-based).
Slice(s, i, n) == SubSeq(s, i + 1, Min({i + n, Len(s)}))

----------------------------------------------------------------------------
(* Fingerprint lists *)

\* A fingerprint list of n entries in ascending anchor time: g fingerprints
\* per anchor frame, anchors `stride` frames apart, hashes cycling with period m.
Rec(n, m, g, stride) ==
    [i \in 1..n |-> [hash |-> ((i - 1) % m) + 1,
                     timeOffset |-> ((i - 1) \div g) * stride]]

\* The contiguous clip fps[a+1 .. a+l], its times counted from the clip's start.
Clip(fps, a, l) ==
    [i \in 1..l |-> [hash |-> fps[a + i].hash,
                     timeOffset |-> fps[a + i].timeOffset - fps[a + 1].timeOffset]]

\* The clips used as queries: the whole list, and the clips of MIN_MATCHES - 1
\* to MaxLen fingerprints that start within the first MaxLen entries.
ClipsOf(fps) ==
    {Clip(fps, 0, Len(fps))} \cup
    UNION {{Clip(fps, a, l) : l \in (MIN_MATCHES - 1)..Min({MaxLen, Len(fps) - a})}
              : a \in 0..Min({MaxLen, Len(fps) - 1})}

----------------------------------------------------------------------------
(* DatabaseService: the tables *)

SongRows(rows, songId) == SelectSeq(rows, LAMBDA r : r.songId = songId)

\* The columns of fingerprints that carry a unique index: only the primary key.
UniqueKey(row) == <<row.id>>

\* fingerprints_songId_fkey: a row may be inserted only for an existing song.
ForeignKeyOk(songId) == songId \in songs

\* createMany({data, skipDuplicates: true}): INSERT ... ON CONFLICT DO NOTHING.
\* Row k of the batch takes the next serial id; a row is skipped when its unique
\* key is already in the table or earlier in the same statement.
NewRows(songId, batch) ==
    [k \in 1..Len(batch) |-> [id |-> nextFpId + k - 1, songId |-> songId,
                              hashValue |-> batch[k].hash,
                              timeOffset |-> batch[k].timeOffset]]

CreateMany(rows, songId, batch) ==
    LET new == NewRows(songId, batch)
        present == {UniqueKey(rows[j]) : j \in 1..Len(rows)}
        keys == {UniqueKey(new[k]) : k \in 1..Len(new)}
    IN  IF Cardinality(keys) = Len(new) /\ keys \cap present = {}
        THEN rows \o new    \* no conflict: every row is inserted
        ELSE rows \o SelectSeq(new, LAMBDA r :
                        /\ UniqueKey(r) \notin present
                        /\ \A k \in 1..Len(new) :
                              UniqueKey(new[k]) = UniqueKey(r) => new[k].id >= r.id)

\* The delete as it would be if the foreign key did not cascade.
CascadeDelete_None(rows, songId) == rows

\* song.delete with ON DELETE CASCADE on fingerprints.songId.
CascadeDelete(rows, songId) == SelectSeq(rows, LAMBDA r : r.songId # songId)

\* findMany({where: {hashValue: {in: hashes}}}): the rows in heap order.
FindMany(rows, hashes) == SelectSeq(rows, LAMBDA r : r.hashValue \in hashes)

\* queryMap.get(hash) || 0 after the loop of queryMap.set: the last occurrence wins.
QueryMapGet(batch, h) ==
    LET occ == {i \in 1..Len(batch) : batch[i].hash = h}
    IN  IF occ = {} THEN 0 ELSE batch[Max(occ)].timeOffset

ToMatch(batch, row) ==
    [songId |-> row.songId, timeOffset |-> row.timeOffset,
     queryTimeOffset |-> QueryMapGet(batch, row.hashValue),
     timeDelta |-> row.timeOffset - QueryMapGet(batch, row.hashValue)]

\* DatabaseService.findMatchingFingerprints, given the rows findMany returned.
FindMatchingFingerprints(batch, found) ==
    [k \in 1..Len(found) |-> ToMatch(batch, found[k])]

----------------------------------------------------------------------------
(* SongMatcher *)

\* Math.round(delta / tolerance): the index of the histogram bin of a delta of
\* d frames; the Map key is that index times the tolerance.
QuantizeDelta(d) ==
    RoundDiv(d * HOP_LENGTH * TIME_ALIGNMENT_TOLERANCE_INV, SAMPLE_RATE)

\* Math.abs(delta - bestDelta) <= TIME_ALIGNMENT_TOLERANCE, for a delta of d
\* frames and bestDelta the key of bin b.
WithinTolerance(d, b) ==
    Abs(d * HOP_LENGTH * TIME_ALIGNMENT_TOLERANCE_INV - b * SAMPLE_RATE) <= SAMPLE_RATE

\* createDeltaHistogram: the Map as the sequence of its entries in insertion order.
CreateDeltaHistogram(timeDeltas) ==
    LET quantizedDelta == [i \in 1..Len(timeDeltas) |-> QuantizeDelta(timeDeltas[i])]
        first == {i \in 1..Len(timeDeltas) :
                    \A j \in 1..(i - 1) : quantizedDelta[j] # quantizedDelta[i]}
        order == SortedIdx(first, Len(timeDeltas))
    IN  [k \in 1..Len(order) |->
            [delta |-> quantizedDelta[order[k]],
             count |-> Cardinality({i \in 1..Len(timeDeltas) :
                                       quantizedDelta[i] = quantizedDelta[order[k]]})]]

\* findBestAlignment: the first entry with the greatest count, null below MIN_MATCHES.
FindBestAlignment(histogram) ==
    LET maxCount == IF histogram = <<>> THEN 0
                    ELSE Max({histogram[k].count : k \in 1..Len(histogram)})
        best == Min({k \in 1..Len(histogram) : histogram[k].count = maxCount})
    IN  IF maxCount >= MIN_MATCHES
        THEN [found |-> TRUE, delta |-> histogram[best].delta, count |-> maxCount]
        ELSE [found |-> FALSE, delta |-> 0, count |-> 0]

\* IsAligned as it would be if only the deltas of the best bin itself counted.
IsAligned_BestBinOnly(d, bestAlignment) == QuantizeDelta(d) = bestAlignment.delta

\* Whether a delta is counted as aligned with the best alignment.
IsAligned(d, bestAlignment) == WithinTolerance(d, bestAlignment.delta)

\* calculateSingleAlignmentScore; confidence is the fraction confNum / confDen.
CalculateSingleAlignmentScore(group) ==
    LET timeDeltas == [k \in 1..Len(group) |-> group[k].timeDelta]
        bestAlignment == FindBestAlignment(CreateDeltaHistogram(timeDeltas))
        aligned == Cardinality({k \in 1..Len(timeDeltas) :
                                    IsAligned(timeDeltas[k], bestAlignment)})
    IN  IF ~bestAlignment.found
        THEN [alignedMatches |-> 0, confNum |-> 0, confDen |-> 1, timeOffset |-> 0]
        ELSE [alignedMatches |-> aligned, confNum |-> aligned,
              confDen |-> Len(group), timeOffset |-> bestAlignment.delta]

\* groupMatchesBySong: the Map as the sequence of its entries in insertion order.
GroupMatchesBySong(ms) ==
    LET ids == {ms[i].songId : i \in 1..Len(ms)}
        first == {CHOOSE i \in 1..Len(ms) :
                     /\ ms[i].songId = id
                     /\ \A j \in 1..(i - 1) : ms[j].songId # id : id \in ids}
        order == SortedIdx(first, Len(ms))
    IN  [k \in 1..Len(order) |->
            [songId |-> ms[order[k]].songId,
             matches |-> SelectSeq(ms, LAMBDA m : m.songId = ms[order[k]].songId)]]

\* ConfidenceOk as it would be if the confidence were only tested for being set.
ConfidenceOk_NonZero(score) == score.confNum > 0

\* score.confidence >= CONFIDENCE_THRESHOLD
ConfidenceOk(score) == CONFIDENCE_THRESHOLD_INV * score.confNum >= score.confDen

\* The test of calculateAlignmentScores that admits a song's group to scoring.
EnoughMatches(group) == Len(group) >= MIN_MATCHES

\* calculateAlignmentScores: the entries that pass, in the order of songMatches.
CalculateAlignmentScores(songMatches) ==
    LET score == [k \in 1..Len(songMatches) |->
                     CalculateSingleAlignmentScore(songMatches[k].matches)]
        pass == {k \in 1..Len(songMatches) :
                    EnoughMatches(songMatches[k].matches) /\ ConfidenceOk(score[k])}
        order == SortedIdx(pass, Len(songMatches))
    IN  [k \in 1..Len(order) |->
            [songId |-> songMatches[order[k]].songId, score |-> score[order[k]]]]

\* combinedScore(a) > combinedScore(b), both taken over the same query length:
\* confidence * (alignedMatches / total) compared as fractions.
CombinedGreater(a, b) ==
    a.confNum * a.alignedMatches * b.confDen > b.confNum * b.alignedMatches * a.confDen

NoMatch == [found |-> FALSE, songId |-> 0, confNum |-> 0, confDen |-> 1,
            alignedMatches |-> 0, totalQueryFingerprints |-> 0]

\* findBestMatch: the first entry whose combined score is positive and is not
\* exceeded by any entry.
FindBestMatch(scores, totalQueryFingerprints) ==
    LET cand == {k \in 1..Len(scores) :
                    /\ scores[k].score.confNum * scores[k].score.alignedMatches > 0
                    /\ \A j \in 1..Len(scores) :
                          ~CombinedGreater(scores[j].score, scores[k].score)}
    IN  IF cand = {} THEN NoMatch
        ELSE LET e == scores[Min(cand)]
             IN  [found |-> TRUE, songId |-> e.songId, confNum |-> e.score.confNum,
                  confDen |-> e.score.confDen, alignedMatches |-> e.score.alignedMatches,
                  totalQueryFingerprints |-> totalQueryFingerprints]

----------------------------------------------------------------------------------------------------------------------------------------
(* ShazamService.addSong: ingestion request w *)

IdleIng == [pc |-> "idle", fps |-> <<>>, songId |-> 0, i |-> 0, writes |-> <<>>]

\* Requests are numbered in the order in which they arrive.
Arrived(w) == IF w = 1 THEN TRUE ELSE ing[w - 1].pc # "idle"

\* The (artist, title) of upload request w: every upload names its own song.
Metadata(w) == w

\* generateFingerprints returned fps (not empty); then databaseService.addSong
\* inserts the song row.  addFingerprints starts with i = 0.
AddSongCreate(w, fps) ==
    /\ ing[w].pc = "idle"
    /\ Arrived(w)
    /\ Len(fps) > 0
    /\ songs' = songs \cup {nextSongId}
    /\ nextSongId' = nextSongId + 1
    /\ ing' = [ing EXCEPT ![w] = [pc |-> "persist", fps |-> fps, songId |-> nextSongId,
                                  i |-> 0, writes |-> <<>>]]
    /\ songKey' = songKey @@ (nextSongId :> Metadata(w))
    /\ UNCHANGED <<fingerprints, nextFpId, deleted, ingested>>
    /\ UNCHANGED idVars
    /\ UNCHANGED otherVars
    /\ UNCHANGED envVars

\* generateFingerprints throws (decoder error), or returns an empty list and
\* addSong throws: nothing has been written.
AddSongFingerprintError(w) ==
    /\ ing[w].pc = "idle"
    /\ Arrived(w)
    /\ ing' = [ing EXCEPT ![w] = [IdleIng EXCEPT !.pc = "failed"]]
    /\ UNCHANGED <<dbVars, deleted, ingested, songKey>>
    /\ UNCHANGED idVars
    /\ UNCHANGED otherVars
    /\ UNCHANGED envVars

\* One iteration of the loop of addFingerprints: createMany of the next slice.
\* The statement fails as a whole when the song row is gone (foreign key); the
\* error leaves addFingerprints and addSong.  After the last slice addSong returns.
AddFingerprintsBatch(w) ==
    LET r == ing[w]
        batch == Slice(r.fps, r.i, INSERT_BATCH_SIZE)
        last == r.i + INSERT_BATCH_SIZE >= Len(r.fps)
    IN  /\ r.pc = "persist"
        /\ r.i < Len(r.fps)
        /\ IF ForeignKeyOk(r.songId)
           THEN /\ fingerprints' = CreateMany(fingerprints, r.songId, batch)
                /\ nextFpId' = nextFpId + Len(batch)
                /\ ing' = [ing EXCEPT ![w].i = r.i + INSERT_BATCH_SIZE,
                                      ![w].writes = Append(r.writes, batch),
                                      ![w].pc = IF last THEN "ready" ELSE "persist"]
                /\ ingested' = IF last THEN ingested @@ (r.songId :> r.fps) ELSE ingested
           ELSE /\ ing' = [ing EXCEPT ![w].pc = "failed"]
                /\ UNCHANGED <<fingerprints, nextFpId, ingested>>
        /\ UNCHANGED <<songs, nextSongId, deleted, songKey>>
        /\ UNCHANGED idVars
        /\ UNCHANGED otherVars
        /\ UNCHANGED envVars

\* The store rejects the next createMany (connection lost, timeout): the error
\* leaves addFingerprints and addSong; processSongAsync logs it and removes the
\* uploaded file.  No statement of the request touches the tables afterwards.
AddFingerprintsStoreError(w) ==
    /\ ing[w].pc = "persist"
    /\ ing[w].i < Len(ing[w].fps)
    /\ ing' = [ing EXCEPT ![w].pc = "failed"]
    /\ UNCHANGED <<dbVars, deleted, ingested, songKey>>
    /\ UNCHANGED idVars
    /\ UNCHANGED otherVars
    /\ UNCHANGED envVars

\* Uploads made one at a time (the bulk processor with --max-concurrent 1): no
\* other ingestion request is between its awaits.
Sequential(w) == \A v \in Requests \ {w} : ing[v].pc # "persist"

----------------------------------------------------------------------------
(* DatabaseService.deleteSong *)

\* user_queries_identifiedSongId_fkey, ON DELETE SET NULL: the rows that
\* name the deleted song keep their place and lose the reference.
SetNull(rows, songId) ==
    [k \in 1..Len(rows) |-> IF rows[k] = songId THEN 0 ELSE rows[k]]

DeleteSong(songId) ==
    /\ songId \in songs
    /\ songs' = songs \ {songId}
    /\ fingerprints' = CascadeDelete(fingerprints, songId)
    /\ deleted' = deleted \cup {songId}
    /\ songKey' = [id \in DOMAIN songKey \ {songId} |-> songKey[id]]
    /\ userQueries' = [userQueries EXCEPT !.rows = SetNull(@, songId)]
    /\ UNCHANGED <<nextSongId, nextFpId, ing, ingested, boot, scratch>>
    /\ UNCHANGED idVars
    /\ UNCHANGED otherVars

----------------------------------------------------------------------------
(* SongMatcher.identifySong *)

\* identifySong is called with the query fingerprints (never empty: the caller
\* throws on an empty list); findPotentialMatches starts with i = 0.
IdentifyStart(q) ==
    /\ idPc = "idle"
    /\ Len(q) > 0
    /\ idPc' = "lookup"
    /\ query' = q
    /\ idPos' = 0
    /\ postings' = <<>>
    /\ batchMatches' = <<>>
    /\ matches' = <<>>
    /\ alignmentScores' = <<>>
    /\ result' = NoMatch
    /\ UNCHANGED <<dbVars, ing, deleted, ingested, songKey>>
    /\ UNCHANGED otherVars
    /\ UNCHANGED envVars

\* What identifySong computes from the matches once the loop has ended.
Scores(ms) == IF Len(ms) = 0 THEN <<>> ELSE CalculateAlignmentScores(GroupMatchesBySong(ms))

\* One iteration of the loop of findPotentialMatches: a findMatchingFingerprints
\* call on the next slice.  After the last slice the rest of identifySong runs
\* without another await.
IdentifyLookup ==
    LET batch == Slice(query, idPos, LOOKUP_BATCH_SIZE)
        found == FindMany(fingerprints, {batch[k].hash : k \in 1..Len(batch)})
        bm == FindMatchingFingerprints(batch, found)
        last == idPos + LOOKUP_BATCH_SIZE >= Len(query)
        scores == Scores(matches \o bm)
    IN  /\ idPc = "lookup"
        /\ postings' = found
        /\ batchMatches' = bm
        /\ matches' = matches \o bm
        /\ idPos' = idPos + LOOKUP_BATCH_SIZE
        /\ idPc' = IF last THEN "done" ELSE "lookup"
        /\ alignmentScores' = IF last THEN scores ELSE <<>>
        /\ result' = IF last THEN FindBestMatch(scores, Len(query)) ELSE NoMatch
        /\ UNCHANGED <<query, dbVars, ing, deleted, ingested, songKey>>
        /\ UNCHANGED otherVars
        /\ UNCHANGED envVars

\* identifySong has returned; the next identification request may arrive.
IdentifyReturn ==
    /\ idPc = "done"
    /\ idPc' = "idle"
    /\ query' = <<>>
    /\ idPos' = 0
    /\ postings' = <<>>
    /\ batchMatches' = <<>>
    /\ matches' = <<>>
    /\ alignmentScores' = <<>>
    /\ result' = NoMatch
    /\ UNCHANGED <<dbVars, ing, deleted, ingested, songKey>>
    /\ UNCHANGED otherVars
    /\ UNCHANGED envVars

----------------------------------------------------------------------------
(* Initial state: empty tables, no request *)

\* ShazamService.identifySong has not been called.  success, songId and the
\* confidence are the IdentifyResult; error is the error its catch logged;
\* analytics is the outcome of recordUserQuery; http is the controller's answer.
IdleSvc == [pc |-> "idle", success |-> FALSE, songId |-> 0, confNum |-> 0, confDen |-> 1,
            error |-> "none", analytics |-> "none", http |-> "none"]

\* The bulk processor has not been started.
IdleBulk == [pc |-> "off"]

\* generateFingerprints has not been called.  length is audioData.length;
\* spectrogram.starts are the first samples of the windows, and the magnitudes
\* of the frames are floor everywhere but at the cells of spikes (bins is the
\* length of each frame); scanned is the peaks array of findPeaks before its
\* sort; peaks and fingerprints are the lists of the later passes; error is the
\* error thrown; copy is the file whose AudioFingerprinter class runs the pass.
IdleDsp == [pass |-> "none", length |-> 0, copy |-> "song-matcher.service.ts",
            spectrogram |-> [starts |-> <<>>, bins |-> 0, floor |-> 0, spikes |-> <<>>],
            scanned |-> <<>>, peaks |-> <<>>, fingerprints |-> <<>>, error |-> "none"]

\* startServer has not been called.  outcomes holds the outcome of each
\* connection attempt made so far.
IdleBoot == [pc |-> "off", maxRetries |-> 0, attempts |-> 0, outcomes |-> <<>>,
             listening |-> FALSE, exited |-> FALSE, exitCode |-> 0]

\* The passes that run at the same time on files of one directory: the bulk
\* script runs up to maxConcurrent of them.
Passes == 1..MAX_CONCURRENT

\* A pass that has not been called.  mp3 and raw are the values of Date.now()
\* in the names converted_<mp3>.mp3 and temp_<raw>.raw (-1: no such name yet);
\* read is the pass whose samples the pass read from its raw file (0: none).
IdlePass == [pc |-> "idle", copy |-> "song-matcher.service.ts", codec |-> "mp3",
             converted |-> FALSE, mp3 |-> -1, raw |-> -1, read |-> 0,
             error |-> "none"]

\* No pass has touched the directory.  files holds a record for each temporary
\* file that exists, with the pass that wrote its content; touched records
\* each access of a pass to a file whose content another pass wrote.
IdleScratch == [now |-> 0, files |-> {}, pass |-> [p \in Passes |-> IdlePass],
                touched |-> {}]

\* No identify request has been made.  rows holds identifiedSongId of each row
\* of user_queries (0 is NULL); identified counts the calls of identifySong
\* that returned a match.
IdleQueries == [rows |-> <<>>, identified |-> 0]

Init ==
    /\ songs = {}
    /\ fingerprints = <<>>
    /\ nextSongId = 1
    /\ nextFpId = 1
    /\ ing = [w \in Pipelines |-> IdleIng]
    /\ idPc = "idle"
    /\ query = <<>>
    /\ idPos = 0
    /\ postings = <<>>
    /\ batchMatches = <<>>
    /\ matches = <<>>
    /\ alignmentScores = <<>>
    /\ result = NoMatch
    /\ deleted = {}
    /\ ingested = <<>>
    /\ songKey = <<>>
    /\ svc = IdleSvc
    /\ bulk = IdleBulk
    /\ dsp = IdleDsp
    /\ boot = IdleBoot
    /\ scratch = IdleScratch
    /\ userQueries = IdleQueries

----------------------------------------------------------------------------
(* ShazamService.identifySong and ShazamController.identifySong *)

\* The catch of ShazamService.identifySong: the error is logged and the result
\* is { success: false, processingTime }.
Caught(error) == [IdleSvc EXCEPT !.pc = "returned", !.error = error]

\* The IdentifyResult built from the result of SongMatcher.identifySong.
MatcherResponse ==
    IF result.found
    THEN [IdleSvc EXCEPT !.pc = "returned", !.success = TRUE, !.songId = result.songId,
                         !.confNum = result.confNum, !.confDen = result.confDen]
    ELSE [IdleSvc EXCEPT !.pc = "returned"]

\* recordUserQuery as it would be if its catch rethrew the error.
RecordUserQuery_Rethrow(r, written) ==
    IF written THEN [r EXCEPT !.analytics = "written"]
    ELSE [Caught("store") EXCEPT !.analytics = "failed"]

\* DatabaseService.recordUserQuery: the row is written, or the create fails and
\* the catch logs the error without throwing.
RecordUserQuery(r, written) ==
    [r EXCEPT !.analytics = IF written THEN "written" ELSE "failed"]

\* generateFingerprints returned an empty list for the query audio: identifySong
\* throws "No fingerprints could be generated" into its own catch.
ServiceNoFingerprints ==
    /\ svc.pc = "idle"
    /\ idPc = "idle"
    /\ svc' = Caught("NoFingerprints")
    /\ UNCHANGED <<dbVars, songKey, ing, deleted, ingested, bulk, dsp>>
    /\ UNCHANGED idVars
    /\ UNCHANGED envVars

\* findMany fails during a lookup: findMatchingFingerprints logs and rethrows,
\* and so does SongMatcher.identifySong.
IdentifyLookupError ==
    /\ idPc = "lookup"
    /\ idPc' = "error"
    /\ UNCHANGED <<query, idPos, postings, batchMatches, matches, alignmentScores, result>>
    /\ UNCHANGED <<dbVars, songKey, ing, deleted, ingested>>
    /\ UNCHANGED otherVars
    /\ UNCHANGED envVars

\* The error of SongMatcher.identifySong reaches the catch of ShazamService.identifySong.
ServiceCatch ==
    /\ svc.pc = "idle"
    /\ idPc = "error"
    /\ svc' = Caught("store")
    /\ UNCHANGED <<dbVars, songKey, ing, deleted, ingested, bulk, dsp>>
    /\ UNCHANGED idVars
    /\ UNCHANGED envVars

\* SongMatcher.identifySong has returned: on a match getSongById reads the song
\* (a missing song throws into the catch); then recordUserQuery; then the result.
ServiceRecord(written) ==
    /\ svc.pc = "idle"
    /\ idPc = "done"
    /\ svc' = IF result.found /\ result.songId \notin songs
              THEN Caught("SongNotFound")
              ELSE RecordUserQuery(MatcherResponse, written)
    /\ userQueries' =
          IF result.found /\ result.songId \notin songs
          THEN userQueries
          ELSE [rows |-> IF written
                         THEN Append(userQueries.rows,
                                     IF result.found THEN result.songId ELSE 0)
                         ELSE userQueries.rows,
                identified |-> userQueries.identified
                    + (IF RecordUserQuery(MatcherResponse, written).success THEN 1 ELSE 0)]
    /\ UNCHANGED <<dbVars, songKey, ing, deleted, ingested, bulk, dsp, boot, scratch>>
    /\ UNCHANGED idVars

\* DatabaseService.getStats: the counts of songs, of fingerprints and of
\* user_queries rows, and the count of the rows whose identifiedSongId is not
\* null (the average of processingTime is left out: the model has no durations).
GetStats ==
    [songCount |-> Cardinality(songs),
     fingerprintCount |-> Len(fingerprints),
     queryCount |-> Len(userQueries.rows),
     successfulQueries |-> Len(SelectSeq(userQueries.rows, LAMBDA id : id # 0))]

\* ShazamController.identifySong answers: 200 with the song when result.success
\* and result.song, else 200 with "Song not found in database".
ControllerRespond ==
    /\ svc.pc = "returned"
    /\ svc' = [svc EXCEPT !.pc = "responded",
                          !.http = IF svc.success /\ svc.songId # 0
                                   THEN "200 identified" ELSE "200 not found"]
    /\ UNCHANGED <<dbVars, songKey, ing, deleted, ingested, bulk, dsp>>
    /\ UNCHANGED idVars
    /\ UNCHANGED envVars

\* The request is over; the next one may arrive.
ServiceReset ==
    /\ svc.pc = "responded"
    /\ svc' = IdleSvc
    /\ idPc' = "idle"
    /\ query' = <<>>
    /\ idPos' = 0
    /\ postings' = <<>>
    /\ batchMatches' = <<>>
    /\ matches' = <<>>
    /\ alignmentScores' = <<>>
    /\ result' = NoMatch
    /\ UNCHANGED <<dbVars, songKey, ing, deleted, ingested, bulk, dsp>>
    /\ UNCHANGED envVars

----------------------------------------------------------------------------
(* AudioFingerprinter.generateFingerprints *)

\* The loop condition of generateSpectrogram as it would be with < for <=.
InLoop_Exclusive(i, length) == i < length - WINDOW_SIZE

\* The loop condition of generateSpectrogram.
InLoop(i, length) == i <= length - WINDOW_SIZE

\* generateSpectrogram: i = 0, HOP_LENGTH, 2 * HOP_LENGTH, ... while the loop
\* condition holds; one frame is pushed for each i.
WindowStarts(length) ==
    SelectSeq([k \in 1..(length \div HOP_LENGTH + 1) |-> (k - 1) * HOP_LENGTH],
              LAMBDA i : InLoop(i, length))

\* spectrogram[t][f]
Mag(sp, t, f) == IF <<t, f>> \in DOMAIN sp.spikes THEN sp.spikes[<<t, f>>] ELSE sp.floor

\* isLocalMaximum as it would be with > for >=.
IsLocalMaximum_NonStrict(sp, t, f, neighborhoodSize) ==
    LET magnitude == Mag(sp, t, f)
        halfSize == neighborhoodSize \div 2
    IN  \A dt \in (-halfSize)..halfSize : \A df \in (-halfSize)..halfSize :
            \/ dt = 0 /\ df = 0
            \/ LET nt == t + dt
                   nf == f + df
               IN  (nt >= 0 /\ nt < Len(sp.starts) /\ nf >= 0 /\ nf < sp.bins)
                       => ~(Mag(sp, nt, nf) > magnitude)

\* isLocalMaximum: false as soon as a cell of the square that lies in the
\* matrix is >= the cell's magnitude.
IsLocalMaximum(sp, t, f, neighborhoodSize) ==
    LET magnitude == Mag(sp, t, f)
        halfSize == neighborhoodSize \div 2
    IN  \A dt \in (-halfSize)..halfSize : \A df \in (-halfSize)..halfSize :
            \/ dt = 0 /\ df = 0
            \/ LET nt == t + dt
                   nf == f + df
               IN  (nt >= 0 /\ nt < Len(sp.starts) /\ nf >= 0 /\ nf < sp.bins)
                       => ~(Mag(sp, nt, nf) >= magnitude)

RECURSIVE BucketsFrom(_, _, _)
\* The indices of idx whose key is in rest, by key ascending, indices of equal
\* key in their order in idx.
BucketsFrom(idx, key, rest) ==
    IF rest = {} THEN <<>>
    ELSE LET v == Min(rest)
         IN  SelectSeq(idx, LAMBDA i : key[i] = v) \o BucketsFrom(idx, key, rest \ {v})

\* Array.prototype.sort with a comparator that orders by key[i] ascending: the
\* sort is stable, so equal keys keep their order.
StableSort(s, key) ==
    LET n == Len(s)
        order == BucketsFrom([i \in 1..n |-> i], key, {key[i] : i \in 1..n})
    IN  [p \in 1..n |-> s[order[p]]]

\* A peak holds the frame index as time and the bin index as frequency: the
\* code's seconds are time * HOP_LENGTH / SAMPLE_RATE and its hertz are
\* frequency * SAMPLE_RATE / (2 * (frequencyBins - 1)).
Peak(t, f, m) == [time |-> t, frequency |-> f, magnitude |-> m]

\* findPeaks, the loops: the cells that pass, in the order of the scan (t
\* outer, f inner).
ScanPeaks(sp) ==
    LET scan == [k \in 1..(Len(sp.starts) * sp.bins) |->
                    <<(k - 1) \div sp.bins, (k - 1) % sp.bins>>]
        cells == SelectSeq(scan, LAMBDA c :
                     /\ ~(Mag(sp, c[1], c[2]) < MIN_AMPLITUDE)
                     /\ IsLocalMaximum(sp, c[1], c[2], PEAK_NEIGHBORHOOD_SIZE))
    IN  [p \in 1..Len(cells) |->
            Peak(cells[p][1], cells[p][2], Mag(sp, cells[p][1], cells[p][2]))]

\* The end of findPeaks as it would be without the sort.
CapPeaks_Unsorted(peaks) == Slice(peaks, 0, MAX_PEAKS)

\* findPeaks, the end: the peaks sorted by magnitude descending and cut to the
\* first MAX_PEAKS.
CapPeaks(peaks) ==
    Slice(StableSort(peaks, [i \in 1..Len(peaks) |-> -peaks[i].magnitude]), 0, MAX_PEAKS)

\* findPeaks
FindPeaks(sp) == CapPeaks(ScanPeaks(sp))

\* findPeaks has gone through its loops and pushed the list scanned.
FindPeaksScan(scanned) ==
    /\ dsp.pass = "none"
    /\ dsp' = [IdleDsp EXCEPT !.pass = "scanned", !.scanned = scanned]
    /\ UNCHANGED <<dbVars, songKey, ing, deleted, ingested, svc, bulk>>
    /\ UNCHANGED idVars
    /\ UNCHANGED envVars

\* findPeaks sorts the list and returns its slice.
FindPeaksCap ==
    /\ dsp.pass = "scanned"
    /\ dsp' = [dsp EXCEPT !.pass = "peaks", !.peaks = CapPeaks(dsp.scanned)]
    /\ UNCHANGED <<dbVars, songKey, ing, deleted, ingested, svc, bulk>>
    /\ UNCHANGED idVars
    /\ UNCHANGED envVars

\* findPeaks of the class of the given copy has returned the list peaks.
FindPeaksReturn(copy, peaks) ==
    /\ dsp.pass = "none"
    /\ dsp' = [IdleDsp EXCEPT !.pass = "peaks", !.copy = copy, !.peaks = peaks,
                              !.spectrogram.bins = WINDOW_SIZE \div 2]
    /\ UNCHANGED <<dbVars, songKey, ing, deleted, ingested, svc, bulk>>
    /\ UNCHANGED idVars
    /\ UNCHANGED envVars

\* timeDelta in frames; the conditions of peaksToFingerprints on it.
TooClose(d) == d * HOP_LENGTH * MIN_HASH_TIME_DELTA_INV < SAMPLE_RATE
TooFar(d) == d * HOP_LENGTH > MAX_HASH_TIME_DELTA * SAMPLE_RATE

\* createHash: the frequencies in hertz floored to tens, the delta in seconds
\* floored to hundredths and taken in thousandths.  All values stay below 2^31,
\* so >>> 0 changes nothing.
CreateHash(f1, f2, d, bins) ==
    LET quantizedF1 == ((f1 * SAMPLE_RATE) \div (2 * (bins - 1) * 10)) * 10
        quantizedF2 == ((f2 * SAMPLE_RATE) \div (2 * (bins - 1) * 10)) * 10
        quantizedDelta == (d * HOP_LENGTH * 100) \div SAMPLE_RATE
    IN  ((0 * 31 + quantizedF1) * 31 + quantizedF2) * 31 + quantizedDelta * 10

\* The two files that hold a class AudioFingerprinter, and the FANOUT of each.
Copies == {"song-matcher.service.ts", "audio-fingerprinter.service.ts"}
Fanout(copy) == IF copy = "audio-fingerprinter.service.ts" THEN FANOUT_OF_SERVICE_COPY ELSE FANOUT

\* The inner loop of peaksToFingerprints for the anchor sorted[i]: the targets
\* after it that are not too close, up to the first that is too far, at most
\* fanout of them.
TargetsUpTo(sorted, i, fanout) ==
    LET n == Len(sorted)
        delta(j) == sorted[j].time - sorted[i].time
        firstFar == Min({j \in (i + 1)..n : TooFar(delta(j))} \cup {n + 1})
        valid == SelectSeq([k \in 1..(n - i) |-> i + k],
                           LAMBDA j : j < firstFar /\ ~TooClose(delta(j)))
    IN  Slice(valid, 0, fanout)

\* The inner loop with the FANOUT of song-matcher.service.ts.
Targets(sorted, i) == TargetsUpTo(sorted, i, FANOUT)

RECURSIVE PairUpWith(_, _, _, _)
\* The outer loop of peaksToFingerprints from anchor i on.
PairUpWith(sorted, i, bins, fanout) ==
    IF i > Len(sorted) THEN <<>>
    ELSE LET targets == TargetsUpTo(sorted, i, fanout)
         IN  [k \in 1..Len(targets) |->
                 [hash |-> CreateHash(sorted[i].frequency, sorted[targets[k]].frequency,
                                      sorted[targets[k]].time - sorted[i].time, bins),
                  timeOffset |-> sorted[i].time]]
             \o PairUpWith(sorted, i + 1, bins, fanout)

\* The outer loop with the FANOUT of song-matcher.service.ts.
PairUp(sorted, i, bins) == PairUpWith(sorted, i, bins, FANOUT)

\* generateFingerprints is called and extractAudioData returns length samples.
ExtractAudioData(length) ==
    /\ dsp.pass = "none"
    /\ dsp' = [IdleDsp EXCEPT !.pass = "samples", !.length = length]
    /\ UNCHANGED <<dbVars, songKey, ing, deleted, ingested, svc, bulk>>
    /\ UNCHANGED idVars
    /\ UNCHANGED envVars

\* generateSpectrogram: one frame of WINDOW_SIZE / 2 magnitudes for each window;
\* the magnitudes are those of the spectrum the samples have.
GenerateSpectrogram(spectrum) ==
    /\ dsp.pass = "samples"
    /\ dsp' = [dsp EXCEPT !.pass = "spectrogram",
                          !.spectrogram = [starts |-> WindowStarts(dsp.length),
                                           bins |-> WINDOW_SIZE \div 2,
                                           floor |-> spectrum.floor,
                                           spikes |-> spectrum.spikes]]
    /\ UNCHANGED <<dbVars, songKey, ing, deleted, ingested, svc, bulk>>
    /\ UNCHANGED idVars
    /\ UNCHANGED envVars

\* findPeaks: spectrogram[0].length throws a TypeError when there is no frame.
FindPeaksPass ==
    /\ dsp.pass = "spectrogram"
    /\ dsp' = IF Len(dsp.spectrogram.starts) = 0
              THEN [dsp EXCEPT !.pass = "thrown", !.error = "TypeError"]
              ELSE [dsp EXCEPT !.pass = "peaks",
                               !.scanned = ScanPeaks(dsp.spectrogram),
                               !.peaks = FindPeaks(dsp.spectrogram)]
    /\ UNCHANGED <<dbVars, songKey, ing, deleted, ingested, svc, bulk>>
    /\ UNCHANGED idVars
    /\ UNCHANGED envVars

\* peaksToFingerprints: the peaks are sorted by time in place and paired.
PeaksToFingerprints ==
    /\ dsp.pass = "peaks"
    /\ LET sorted == StableSort(dsp.peaks, [i \in 1..Len(dsp.peaks) |-> dsp.peaks[i].time])
       IN  dsp' = [dsp EXCEPT !.pass = "fingerprints",
                              !.peaks = sorted,
                              !.fingerprints = PairUpWith(sorted, 1, dsp.spectrogram.bins,
                                                          Fanout(dsp.copy))]
    /\ UNCHANGED <<dbVars, songKey, ing, deleted, ingested, svc, bulk>>
    /\ UNCHANGED idVars
    /\ UNCHANGED envVars

\* generateFingerprints returns its list to ShazamService.identifySong, which
\* throws into its catch when the list is empty.
GenerateFingerprintsReturn ==
    /\ dsp.pass = "fingerprints"
    /\ svc.pc = "idle"
    /\ dsp' = IdleDsp
    /\ svc' = IF Len(dsp.fingerprints) = 0 THEN Caught("NoFingerprints") ELSE svc
    /\ UNCHANGED <<dbVars, songKey, ing, deleted, ingested, bulk>>
    /\ UNCHANGED idVars
    /\ UNCHANGED envVars

\* The catch of generateFingerprints logs and rethrows; the error reaches the
\* catch of ShazamService.identifySong.
GenerateFingerprintsThrow ==
    /\ dsp.pass = "thrown"
    /\ svc.pc = "idle"
    /\ dsp' = IdleDsp
    /\ svc' = Caught(dsp.error)
    /\ UNCHANGED <<dbVars, songKey, ing, deleted, ingested, bulk>>
    /\ UNCHANGED idVars
    /\ UNCHANGED envVars

----------------------------------------------------------------------------
(* startServer and connectToDatabase *)

\* startServer calls connectToDatabase(maxRetries, retryDelay).
ConnectToDatabase(maxRetries) ==
    /\ boot.pc = "off"
    /\ boot' = [boot EXCEPT !.pc = "loop", !.maxRetries = maxRetries]
    /\ UNCHANGED <<dbVars, songKey, ing, deleted, ingested, svc, bulk, dsp, scratch, userQueries>>
    /\ UNCHANGED idVars

\* One turn of the while loop: prisma.$connect throws, or the check returns
\* false, or it returns true.  A failure throws into the catch, which throws
\* for good when attempts >= maxRetries and otherwise starts the delay.
ConnectAttempt(outcome) ==
    /\ boot.pc = "loop"
    /\ boot.attempts < boot.maxRetries
    /\ LET attempts == boot.attempts + 1
       IN  boot' = [boot EXCEPT !.attempts = attempts,
                                !.outcomes = Append(boot.outcomes, outcome),
                                !.pc = IF outcome = "connected" THEN "returned"
                                       ELSE IF attempts >= boot.maxRetries THEN "thrown"
                                       ELSE "waiting"]
    /\ UNCHANGED <<dbVars, songKey, ing, deleted, ingested, svc, bulk, dsp, scratch, userQueries>>
    /\ UNCHANGED idVars

\* The while condition is false: the function ends and its promise resolves.
ConnectLoopEnd ==
    /\ boot.pc = "loop"
    /\ ~(boot.attempts < boot.maxRetries)
    /\ boot' = [boot EXCEPT !.pc = "returned"]
    /\ UNCHANGED <<dbVars, songKey, ing, deleted, ingested, svc, bulk, dsp, scratch, userQueries>>
    /\ UNCHANGED idVars

\* The timer of retryDelay fires.
ConnectRetry ==
    /\ boot.pc = "waiting"
    /\ boot' = [boot EXCEPT !.pc = "loop"]
    /\ UNCHANGED <<dbVars, songKey, ing, deleted, ingested, svc, bulk, dsp, scratch, userQueries>>
    /\ UNCHANGED idVars

\* startServer after the await: app.listen.
ServerListen ==
    /\ boot.pc = "returned"
    /\ boot' = [boot EXCEPT !.pc = "listening", !.listening = TRUE]
    /\ UNCHANGED <<dbVars, songKey, ing, deleted, ingested, svc, bulk, dsp, scratch, userQueries>>
    /\ UNCHANGED idVars

\* The catch of startServer: process.exit(1).
ServerExit ==
    /\ boot.pc = "thrown"
    /\ boot' = [boot EXCEPT !.pc = "exited", !.exited = TRUE, !.exitCode = 1]
    /\ UNCHANGED <<dbVars, songKey, ing, deleted, ingested, svc, bulk, dsp, scratch, userQueries>>
    /\ UNCHANGED idVars

----------------------------------------------------------------------------
(* AudioFingerprinter.extractAudioData and ensureMp3Format: temporary files *)

\* The pass that wrote the file of this name, 0 when no such file exists.
Writer(files, kind, stamp) ==
    IF \E f \in files : f.kind = kind /\ f.stamp = stamp
    THEN (CHOOSE f \in files : f.kind = kind /\ f.stamp = stamp).writer
    ELSE 0

\* fs.existsSync
ExistsSync(files, kind, stamp) == Writer(files, kind, stamp) # 0

\* fs.unlinkSync of a file that exists
UnlinkSync(files, kind, stamp) ==
    {f \in files : ~(f.kind = kind /\ f.stamp = stamp)}

\* ffmpeg writes its output file, replacing a file of that name
WriteOutput(files, kind, stamp, p) ==
    UnlinkSync(files, kind, stamp) \cup {[kind |-> kind, stamp |-> stamp, writer |-> p]}

\* The accesses of pass p to files that hold what another pass wrote.
Touch(files, p, how, kind, stamp) ==
    IF Writer(files, kind, stamp) \notin {0, p}
    THEN {[by |-> p, of |-> Writer(files, kind, stamp), how |-> how, kind |-> kind]}
    ELSE {}

\* generateFingerprints calls extractAudioData.  The copy of the class in
\* song-matcher.service.ts awaits ensureMp3Format first; the copy in
\* audio-fingerprinter.service.ts names its raw file at once and runs ffmpeg.
PassStart(p, copy, codec) ==
    /\ scratch.pass[p].pc = "idle"
    /\ scratch' = [scratch EXCEPT !.pass[p] =
          IF copy = "song-matcher.service.ts"
          THEN [@ EXCEPT !.pc = "probing", !.copy = copy, !.codec = codec]
          ELSE [@ EXCEPT !.pc = "decoding", !.copy = copy, !.codec = codec,
                         !.raw = scratch.now]]
    /\ UNCHANGED <<dbVars, songKey, ing, deleted, ingested, svc, bulk, dsp, boot, userQueries>>
    /\ UNCHANGED idVars

\* ensureMp3Format: ffprobe fails, or the file has no audio stream.
ProbeError(p) ==
    /\ scratch.pass[p].pc = "probing"
    /\ scratch' = [scratch EXCEPT !.pass[p].pc = "thrown", !.pass[p].error = "probe"]
    /\ UNCHANGED <<dbVars, songKey, ing, deleted, ingested, svc, bulk, dsp, boot, userQueries>>
    /\ UNCHANGED idVars

\* ensureMp3Format: an MP3 file is used as it is; any other codec is converted
\* into converted_<Date.now()>.mp3 in the directory of the file.
Probe(p) ==
    /\ scratch.pass[p].pc = "probing"
    /\ scratch' = [scratch EXCEPT !.pass[p] =
          IF @.codec = "mp3"
          THEN [@ EXCEPT !.pc = "ready"]
          ELSE [@ EXCEPT !.pc = "converting", !.mp3 = scratch.now]]
    /\ UNCHANGED <<dbVars, songKey, ing, deleted, ingested, svc, bulk, dsp, boot, userQueries>>
    /\ UNCHANGED idVars

\* The conversion ends: the converted file is written and its path returned.
ConvertEnd(p) ==
    /\ scratch.pass[p].pc = "converting"
    /\ LET stamp == scratch.pass[p].mp3
       IN  scratch' = [scratch EXCEPT
              !.files = WriteOutput(@, "mp3", stamp, p),
              !.touched = @ \cup Touch(scratch.files, p, "overwrote", "mp3", stamp),
              !.pass[p].pc = "ready",
              !.pass[p].converted = TRUE]
    /\ UNCHANGED <<dbVars, songKey, ing, deleted, ingested, svc, bulk, dsp, boot, userQueries>>
    /\ UNCHANGED idVars

\* The conversion fails: the handler unlinks the output file if it exists.
ConvertError(p) ==
    /\ scratch.pass[p].pc = "converting"
    /\ LET stamp == scratch.pass[p].mp3
       IN  scratch' = [scratch EXCEPT
              !.files = UnlinkSync(@, "mp3", stamp),
              !.touched = @ \cup Touch(scratch.files, p, "deleted", "mp3", stamp),
              !.pass[p].pc = "thrown",
              !.pass[p].error = "convert"]
    /\ UNCHANGED <<dbVars, songKey, ing, deleted, ingested, svc, bulk, dsp, boot, userQueries>>
    /\ UNCHANGED idVars

\* extractAudioData after the await: the raw file is named temp_<Date.now()>.raw
\* in the directory of the file, and ffmpeg is run.
DecodeStart(p) ==
    /\ scratch.pass[p].pc = "ready"
    /\ scratch' = [scratch EXCEPT !.pass[p].pc = "decoding",
                                  !.pass[p].raw = scratch.now]
    /\ UNCHANGED <<dbVars, songKey, ing, deleted, ingested, svc, bulk, dsp, boot, userQueries>>
    /\ UNCHANGED idVars

\* ffmpeg writes the raw samples.
DecodeWrite(p) ==
    /\ scratch.pass[p].pc = "decoding"
    /\ LET stamp == scratch.pass[p].raw
       IN  scratch' = [scratch EXCEPT
              !.files = WriteOutput(@, "raw", stamp, p),
              !.touched = @ \cup Touch(scratch.files, p, "overwrote", "raw", stamp),
              !.pass[p].pc = "written"]
    /\ UNCHANGED <<dbVars, songKey, ing, deleted, ingested, svc, bulk, dsp, boot, userQueries>>
    /\ UNCHANGED idVars

\* The handler of "end": readFileSync (which throws when the file is gone or
\* cannot be read), unlinkSync of the raw file, unlinkSync of the converted
\* file (which throws when it is gone), resolve; the catch rejects and
\* unlinks nothing.
DecodeEnd(p, readOk) ==
    /\ scratch.pass[p].pc = "written"
    /\ LET pass == scratch.pass[p]
           read == readOk /\ ExistsSync(scratch.files, "raw", pass.raw)
           afterRaw == UnlinkSync(scratch.files, "raw", pass.raw)
           mp3Gone == pass.converted /\ ~ExistsSync(scratch.files, "mp3", pass.mp3)
       IN  IF ~read
           THEN scratch' = [scratch EXCEPT !.pass[p].pc = "thrown",
                                           !.pass[p].error = "read"]
           ELSE scratch' = [scratch EXCEPT
                  !.files = IF pass.converted THEN UnlinkSync(afterRaw, "mp3", pass.mp3)
                            ELSE afterRaw,
                  !.touched = @ \cup Touch(scratch.files, p, "read", "raw", pass.raw)
                                \cup Touch(scratch.files, p, "deleted", "raw", pass.raw)
                                \cup (IF pass.converted
                                      THEN Touch(scratch.files, p, "deleted", "mp3", pass.mp3)
                                      ELSE {}),
                  !.pass[p].read = Writer(scratch.files, "raw", pass.raw),
                  !.pass[p].pc = IF mp3Gone THEN "thrown" ELSE "resolved",
                  !.pass[p].error = IF mp3Gone THEN "unlink" ELSE "none"]
    /\ UNCHANGED <<dbVars, songKey, ing, deleted, ingested, svc, bulk, dsp, boot, userQueries>>
    /\ UNCHANGED idVars

\* The handler of "error" of the decoder: it unlinks the raw file and the
\* converted file if they exist, and rejects.
DecodeError(p) ==
    /\ scratch.pass[p].pc \in {"decoding", "written"}
    /\ LET pass == scratch.pass[p]
           afterRaw == UnlinkSync(scratch.files, "raw", pass.raw)
       IN  scratch' = [scratch EXCEPT
              !.files = IF pass.converted THEN UnlinkSync(afterRaw, "mp3", pass.mp3)
                        ELSE afterRaw,
              !.touched = @ \cup Touch(scratch.files, p, "deleted", "raw", pass.raw)
                            \cup (IF pass.converted
                                  THEN Touch(scratch.files, p, "deleted", "mp3", pass.mp3)
                                  ELSE {}),
              !.pass[p].pc = "thrown",
              !.pass[p].error = "decode"]
    /\ UNCHANGED <<dbVars, songKey, ing, deleted, ingested, svc, bulk, dsp, boot, userQueries>>
    /\ UNCHANGED idVars

\* A millisecond passes.
Tick ==
    /\ scratch.now < MaxClock
    /\ scratch' = [scratch EXCEPT !.now = @ + 1]
    /\ UNCHANGED <<dbVars, songKey, ing, deleted, ingested, svc, bulk, dsp, boot, userQueries>>
    /\ UNCHANGED idVars

----------------------------------------------------------------------------
(* BulkFingerprintProcessor.processSongsInDirectory *)

\* semaphore.findIndex(slot => slot === x): the first index holding x, 0 for -1.
FindIndex(semaphore, x) ==
    IF \E k \in 1..Len(semaphore) : semaphore[k] = x
    THEN Min({k \in 1..Len(semaphore) : semaphore[k] = x})
    ELSE 0

\* tryAcquire of file f: the first free slot takes the file (0 is null).
TryAcquire(semaphore, f) ==
    IF FindIndex(semaphore, 0) # 0
    THEN [semaphore EXCEPT ![FindIndex(semaphore, 0)] = f]
    ELSE semaphore

\* The finally block: the slot holding file f is set to null.
Release(semaphore, f) ==
    IF FindIndex(semaphore, f) # 0
    THEN [semaphore EXCEPT ![FindIndex(semaphore, f)] = 0]
    ELSE semaphore

\* The files still polling for a slot.
Waiting(b) == {f \in 1..Len(b.files) : b.file[f].pc = "waiting"}

\* processSongFile of file f has returned with `outcome` (it catches every
\* error, so it never throws): successCount++, then the finally block.  When the
\* last promise settles, Promise.all resolves and the summary is logged.
Finish(b, f, outcome) ==
    [b EXCEPT !.file[f].pc = outcome,
              !.semaphore = Release(b.semaphore, f),
              !.successCount = b.successCount + 1,
              !.processedCount = b.processedCount + 1,
              !.pc = IF b.processedCount + 1 = Len(b.files) THEN "done" ELSE "running"]

\* checkIfSongExists: findFirst on (artist, title).
SongExists(key) == \E id \in songs : songKey[id] = key

\* processSongsInDirectory is called: files.map starts every promise; each runs
\* tryAcquire at once, so the first maxConcurrent files take the slots in order
\* and call processSongFile; the others poll every 100 ms.
BulkStart(files, skipExisting, maxConcurrent) ==
    /\ bulk.pc = "off"
    /\ Len(files) > 0
    /\ bulk' = [pc |-> "running", skipExisting |-> skipExisting,
                maxConcurrent |-> maxConcurrent, files |-> files,
                semaphore |-> [k \in 1..maxConcurrent |-> IF k <= Len(files) THEN k ELSE 0],
                file |-> [f \in 1..Len(files) |->
                            [pc |-> IF f <= maxConcurrent THEN "check" ELSE "waiting",
                             existing |-> FALSE, songId |-> 0, i |-> 0]],
                processedCount |-> 0, successCount |-> 0, errorCount |-> 0]
    /\ UNCHANGED <<dbVars, songKey, ing, deleted, ingested, svc, dsp>>
    /\ UNCHANGED idVars
    /\ UNCHANGED envVars

\* A poll of tryAcquire finds a free slot.  The timers of the waiting files were
\* armed in file order and fire in that order, so the first waiting file gets it.
BulkAcquire(f) ==
    /\ bulk.pc = "running"
    /\ f \in Waiting(bulk)
    /\ f = Min(Waiting(bulk))
    /\ FindIndex(bulk.semaphore, 0) # 0
    /\ bulk' = [bulk EXCEPT !.semaphore = TryAcquire(bulk.semaphore, f),
                            !.file[f].pc = "check"]
    /\ UNCHANGED <<dbVars, songKey, ing, deleted, ingested, svc, dsp>>
    /\ UNCHANGED idVars
    /\ UNCHANGED envVars

\* processSongFile: checkIfSongExists answers.  An existing song makes the
\* function return, whatever skipExisting is.
BulkCheck(f) ==
    /\ bulk.pc = "running"
    /\ f \in 1..Len(bulk.files)
    /\ bulk.file[f].pc = "check"
    /\ bulk' = IF SongExists(bulk.files[f].key)
               THEN Finish([bulk EXCEPT !.file[f].existing = TRUE], f, "skipped")
               ELSE [bulk EXCEPT !.file[f].pc = "fingerprint"]
    /\ UNCHANGED <<dbVars, songKey, ing, deleted, ingested, svc, dsp>>
    /\ UNCHANGED idVars
    /\ UNCHANGED envVars

\* processSongFile: generateFingerprints answers: it throws (the catch logs and
\* returns), or returns no fingerprint (logged, return), or returns the list.
BulkFingerprint(f, decoded) ==
    /\ bulk.pc = "running"
    /\ f \in 1..Len(bulk.files)
    /\ bulk.file[f].pc = "fingerprint"
    /\ bulk' = IF ~decoded THEN Finish(bulk, f, "failed")
               ELSE IF Len(bulk.files[f].fps) = 0 THEN Finish(bulk, f, "empty")
               ELSE [bulk EXCEPT !.file[f].pc = "create"]
    /\ UNCHANGED <<dbVars, songKey, ing, deleted, ingested, svc, dsp>>
    /\ UNCHANGED idVars
    /\ UNCHANGED envVars

\* processSongFile: databaseService.addSong inserts the song row.
BulkCreate(f) ==
    /\ bulk.pc = "running"
    /\ f \in 1..Len(bulk.files)
    /\ bulk.file[f].pc = "create"
    /\ songs' = songs \cup {nextSongId}
    /\ songKey' = songKey @@ (nextSongId :> bulk.files[f].key)
    /\ nextSongId' = nextSongId + 1
    /\ bulk' = [bulk EXCEPT !.file[f].pc = "persist", !.file[f].songId = nextSongId]
    /\ UNCHANGED <<fingerprints, nextFpId, ing, deleted, ingested, svc, dsp>>
    /\ UNCHANGED idVars
    /\ UNCHANGED envVars

\* processSongFile: one iteration of the loop of addFingerprints.
BulkPersist(f) ==
    /\ bulk.pc = "running"
    /\ f \in 1..Len(bulk.files)
    /\ bulk.file[f].pc = "persist"
    /\ LET r == bulk.file[f]
           fps == bulk.files[f].fps
           batch == Slice(fps, r.i, INSERT_BATCH_SIZE)
           last == r.i + INSERT_BATCH_SIZE >= Len(fps)
       IN  IF ForeignKeyOk(r.songId)
           THEN /\ fingerprints' = CreateMany(fingerprints, r.songId, batch)
                /\ nextFpId' = nextFpId + Len(batch)
                /\ bulk' = IF last THEN Finish(bulk, f, "stored")
                           ELSE [bulk EXCEPT !.file[f].i = r.i + INSERT_BATCH_SIZE]
                /\ ingested' = IF last THEN ingested @@ (r.songId :> fps) ELSE ingested
           ELSE /\ bulk' = Finish(bulk, f, "failed")
                /\ UNCHANGED <<fingerprints, nextFpId, ingested>>
    /\ UNCHANGED <<songs, nextSongId, songKey, ing, deleted, svc, dsp>>
    /\ UNCHANGED idVars
    /\ UNCHANGED envVars

\* The store rejects databaseService.addSong or the next createMany: the catch
\* of processSongFile logs the error and the function returns.
BulkStoreError(f) ==
    /\ bulk.pc = "running"
    /\ f \in 1..Len(bulk.files)
    /\ bulk.file[f].pc \in {"create", "persist"}
    /\ bulk' = Finish(bulk, f, "failed")
    /\ UNCHANGED <<dbVars, songKey, ing, deleted, ingested, svc, dsp>>
    /\ UNCHANGED idVars
    /\ UNCHANGED envVars

\* main: the value after --max-concurrent goes through parseInt(...) || 2, so
\* NaN and 0 become 2; without the option the value is 2.
ParseMaxConcurrent_AsGiven(arg) ==
    IF arg.kind = "int" THEN arg.n ELSE MAX_CONCURRENT

ParseMaxConcurrent(arg) ==
    IF arg.kind = "int" /\ arg.n # 0 THEN arg.n ELSE MAX_CONCURRENT

\* main parses its options and calls processSongsInDirectory.  A negative
\* maxConcurrent makes new Array(maxConcurrent) throw a RangeError: the call
\* rejects before any file is started.
BulkMain(files, force, arg) ==
    LET maxConcurrent == ParseMaxConcurrent(arg)
    IN  IF maxConcurrent < 0
        THEN /\ bulk.pc = "off"
             /\ Len(files) > 0
             /\ bulk' = [pc |-> "rejected", skipExisting |-> ~force,
                         maxConcurrent |-> maxConcurrent, files |-> files,
                         semaphore |-> <<>>, file |-> <<>>,
                         processedCount |-> 0, successCount |-> 0, errorCount |-> 0]
             /\ UNCHANGED <<dbVars, songKey, ing, deleted, ingested, svc, dsp>>
             /\ UNCHANGED idVars
             /\ UNCHANGED envVars
        ELSE BulkStart(files, ~force, maxConcurrent)

\* What the event loop does next for file f.
BulkStep(f) ==
    \/ BulkAcquire(f)
    \/ BulkCheck(f)
    \/ \E decoded \in BOOLEAN : BulkFingerprint(f, decoded)
    \/ BulkCreate(f)
    \/ BulkPersist(f)
    \/ BulkStoreError(f)

----------------------------------------------------------------------------
(* Spec: the matcher over small recordings, ingested one after the other *)

\* The same MIN_MATCHES hashes at every one of `anchors` anchor frames, the
\* anchors `stride` frames apart: a recording that repeats one sound.
Periodic(anchors, stride) == Rec(anchors * MIN_MATCHES, MIN_MATCHES, MIN_MATCHES, stride)

\* The sound twice, two frames apart.
Echo == Periodic(2, 2)

\* The sound eleven times, five frames apart.
Loop == Periodic(11, 5)

\* One fingerprint per frame, the first hash heard again in the last frame.
Reprise == Rec(MaxLen, MaxLen - 1, 1, 1)

\* One fingerprint per frame, no hash repeated.
Plain == Rec(MaxLen, MaxLen, 1, 1)

\* Two fingerprints per anchor frame whose hashes collide.
Collision == Rec(MaxLen, 1, 2, 1)

SmallRecordings == {Reprise, Plain, Collision, Echo, Loop}

\* Queries: the small recordings, and the clips of the recordings ingested so far.
Queries ==
    SmallRecordings \cup UNION {ClipsOf(ingested[s]) : s \in DOMAIN ingested}

Next ==
    \/ \E w \in Requests, fps \in SmallRecordings : Sequential(w) /\ AddSongCreate(w, fps)
    \/ \E w \in Requests : AddFingerprintsBatch(w)
    \/ \E q \in Queries : IdentifyStart(q)
    \/ IdentifyLookup
    \/ IdentifyReturn

Spec == Init /\ [][Next]_vars

----------------------------------------------------------------------------
(* SpecIngest: concurrent ingestion of long recordings, store errors, delete *)

\* One fingerprint per frame, no hash repeated within a batch.
Long(n) == Rec(n, INSERT_BATCH_SIZE, 1, 1)

LongRecordings == {Long(MIN_MATCHES), Long(MaxBatches * INSERT_BATCH_SIZE + 1)}

\* Two uploads are in progress at the same time.
Uploads == {1, 2}

NextIngest ==
    \/ \E w \in Uploads, fps \in LongRecordings : AddSongCreate(w, fps)
    \/ \E w \in Uploads : AddSongFingerprintError(w)
    \/ \E w \in Uploads : AddFingerprintsBatch(w)
    \/ \E w \in Uploads : AddFingerprintsStoreError(w)
    \/ \E s \in songs : DeleteSong(s)
    \/ IdentifyStart(Long(MIN_MATCHES))
    \/ IdentifyLookup
    \/ IdentifyReturn

SpecIngest == Init /\ [][NextIngest]_vars

----------------------------------------------------------------------------
(* SpecBatch: one ingestion, for every list length up to MaxBatchLen *)

NextBatch ==
    \/ \E n \in 1..MaxBatchLen : AddSongCreate(1, Long(n))
    \/ AddFingerprintsBatch(1)

SpecBatch == Init /\ [][NextBatch]_vars

----------------------------------------------------------------------------
(* SpecLookup: queries of more than one lookup batch against a store at rest *)

\* One fingerprint per frame, hashes cycling with period m: with m below n the
\* first hashes are heard again at the end.
Cycle(n, m) == Rec(n, m, 1, 1)

ChunkRecordings ==
    {Cycle(n, m) : n \in LOOKUP_BATCH_SIZE..(LOOKUP_BATCH_SIZE + MaxOver),
                   m \in (LOOKUP_BATCH_SIZE - 2)..(LOOKUP_BATCH_SIZE + MaxOver)}

\* One upload, made while no identification is running.
NextLookup ==
    \/ \E fps \in ChunkRecordings : idPc = "idle" /\ AddSongCreate(1, fps)
    \/ idPc = "idle" /\ AddFingerprintsBatch(1)
    \/ \E q \in ChunkRecordings : IdentifyStart(q)
    \/ IdentifyLookup
    \/ IdentifyReturn

SpecLookup == Init /\ [][NextLookup]_vars

----------------------------------------------------------------------------
(* SpecBulk: one run of the bulk processor on an empty database *)

\* n files "number - artist - title": the titles cycle with period m, so with
\* m below n the first title comes again; file `silent` yields no fingerprint.
FileList(n, m, silent) ==
    [f \in 1..n |-> [key |-> ((f - 1) % m) + 1,
                     fps |-> IF f = silent THEN <<>> ELSE Long(MIN_MATCHES)]]

FileLists ==
    {FileList(n, m, silent) : n \in 1..MaxFiles, m \in 1..MaxFiles, silent \in 0..1}

NextBulk ==
    \/ \E files \in FileLists, skipExisting \in BOOLEAN, maxConcurrent \in 1..MAX_CONCURRENT :
          BulkStart(files, skipExisting, maxConcurrent)
    \/ \E f \in 1..MaxFiles : BulkAcquire(f)
    \/ \E f \in 1..MaxFiles : BulkCheck(f)
    \/ \E f \in 1..MaxFiles, decoded \in BOOLEAN : BulkFingerprint(f, decoded)
    \/ \E f \in 1..MaxFiles : BulkCreate(f)
    \/ \E f \in 1..MaxFiles : BulkPersist(f)
    \/ \E f \in 1..MaxFiles : BulkStoreError(f)

SpecBulk == Init /\ [][NextBulk]_vars

----------------------------------------------------------------------------
(* SpecBulkFair: the bulk script from its command line, under a fair event loop *)

\* What parseInt makes of the word after --max-concurrent, if there is one.
MaxConcurrentArgs ==
    {[kind |-> "absent", n |-> 0], [kind |-> "nan", n |-> 0]}
        \cup {[kind |-> "int", n |-> n] : n \in -1..MAX_CONCURRENT}

NextBulkFair ==
    \/ \E files \in FileLists, force \in BOOLEAN, arg \in MaxConcurrentArgs :
          BulkMain(files, force, arg)
    \/ \E f \in 1..MaxFiles : BulkStep(f)

\* Every timer that was armed fires and every promise that settled has its
\* continuation run: a step of a file that stays possible is taken.
SpecBulkFair ==
    Init /\ [][NextBulkFair]_vars /\ \A f \in 1..MaxFiles : WF_vars(BulkStep(f))

----------------------------------------------------------------------------
(* SpecApi: uploads through POST /api/add_song; each starts processSongAsync at once *)

NextApi ==
    \/ \E w \in Pipelines : AddSongCreate(w, Long(MIN_MATCHES))
    \/ \E w \in Pipelines : AddSongFingerprintError(w)
    \/ \E w \in Pipelines : AddFingerprintsBatch(w)
    \/ \E w \in Pipelines : AddFingerprintsStoreError(w)
    \/ \E s \in songs : DeleteSong(s)

SpecApi == Init /\ [][NextApi]_vars

----------------------------------------------------------------------------
(* SpecService: POST /api/identify against a store that is filled and emptied *)

NextService ==
    \/ \E fps \in {Plain, Reprise} : AddSongCreate(1, fps)
    \/ AddFingerprintsBatch(1)
    \/ \E s \in songs : DeleteSong(s)
    \/ ServiceNoFingerprints
    \/ \E q \in {Plain, Reprise} :
          /\ svc.pc = "idle"
          /\ Len(userQueries.rows) < MaxQueries
          /\ userQueries.identified < MaxQueries
          /\ IdentifyStart(q)
    \/ IdentifyLookup
    \/ IdentifyLookupError
    \/ ServiceCatch
    \/ \E written \in BOOLEAN : ServiceRecord(written)
    \/ ControllerRespond
    \/ ServiceReset

SpecService == Init /\ [][NextService]_vars

----------------------------------------------------------------------------
(* SpecDsp: the fingerprint pass of an identify request, for sample arrays *)
(* around the window size and up to MaxHops hops longer                     *)

Lengths == {0, WINDOW_SIZE - 1}
           \cup {WINDOW_SIZE + k * HOP_LENGTH + r : k \in 0..MaxHops, r \in {0, HOP_LENGTH - 1}}

Spectrum(floor, cells, mags) ==
    [floor |-> floor, spikes |-> [c \in {cells[i] : i \in DOMAIN cells} |->
                                     mags[CHOOSE i \in DOMAIN cells : cells[i] = c]]]

Levels == {MIN_AMPLITUDE - 1, MIN_AMPLITUDE, MIN_AMPLITUDE + 1}

\* Silence, one cell alone.
PlainSpectra ==
    {Spectrum(0, <<>>, <<>>)} \cup {Spectrum(0, << <<0, 0>> >>, <<m>>) : m \in Levels}

\* Every cell at the same magnitude.
Plateaus == {Spectrum(floor, <<>>, <<>>) : floor \in Levels}

\* Two cells inside and outside each other's square, at the edges of the matrix.
PairSpectra(frames) ==
    LET half == PEAK_NEIGHBORHOOD_SIZE \div 2
        last == WINDOW_SIZE \div 2 - 1
    IN  {Spectrum(0, <<a, b>>, <<ma, mb>>) :
            ma \in Levels, mb \in Levels,
            a \in {<<0, 0>>, <<frames - 1, last>>},
            b \in {<<0, half>>, <<0, half + 1>>, <<half, half>>,
                   <<frames - 1, 0>>, <<frames - 1, last - half>>}}

\* An anchor in the first frame and four peaks in the last one, their
\* magnitudes rising or falling with the frequency.
Constellations(frames) ==
    LET step == PEAK_NEIGHBORHOOD_SIZE \div 2 + 1
        targets == [k \in 1..(FANOUT + 1) |-> <<frames - 1, (k - 1) * step>>]
    IN  {Spectrum(0, << <<0, 0>> >> \o targets, <<2 * MIN_AMPLITUDE>> \o mags) :
            mags \in {[k \in 1..(FANOUT + 1) |-> MIN_AMPLITUDE + k],
                      [k \in 1..(FANOUT + 1) |-> MIN_AMPLITUDE + FANOUT + 2 - k],
                      [k \in 1..(FANOUT + 1) |-> MIN_AMPLITUDE]}}

Spectra(frames) ==
    IF frames <= 1 THEN PlainSpectra \cup Plateaus
    ELSE IF frames <= MaxHops THEN PlainSpectra
    ELSE PlainSpectra \cup PairSpectra(frames) \cup Constellations(frames)

NextDsp ==
    \/ \E length \in Lengths : svc.pc = "idle" /\ ExtractAudioData(length)
    \/ \E spectrum \in Spectra(Len(WindowStarts(dsp.length))) : GenerateSpectrogram(spectrum)
    \/ FindPeaksPass
    \/ PeaksToFingerprints
    \/ GenerateFingerprintsReturn
    \/ GenerateFingerprintsThrow
    \/ ControllerRespond
    \/ ServiceReset

SpecDsp == Init /\ [][NextDsp]_vars

----------------------------------------------------------------------------
(* SpecCap: the sort and the cut of findPeaks, for scans of about MAX_PEAKS *)
(* peaks                                                                    *)

\* The peaks of a spectrogram whose cells stand out on a lattice of step
\* PEAK_NEIGHBORHOOD_SIZE / 2 + 1 in both directions, in the order of the scan;
\* mag[k] is the magnitude of the k-th of them.
Lattice(n, mag) ==
    LET step == PEAK_NEIGHBORHOOD_SIZE \div 2 + 1
        perFrame == (WINDOW_SIZE \div 2 - 1) \div step + 1
    IN  [k \in 1..n |-> Peak(((k - 1) \div perFrame) * step, ((k - 1) % perFrame) * step, mag[k])]

ScanLengths == (MAX_PEAKS - 1)..(MAX_PEAKS + MaxDropped)

\* The places of a scan of n peaks at which one peak differs from the others,
\* or the magnitude rises.
Odd(n) == (1..MaxDropped) \cup ((MAX_PEAKS - 1)..n)

Scans ==
    UNION {{Lattice(n, [k \in 1..n |-> MIN_AMPLITUDE + (k % m)]) : m \in 1..MaxPeriod}
           \cup {Lattice(n, [k \in 1..n |-> MIN_AMPLITUDE + (IF k = w THEN 0 ELSE 1)]) : w \in Odd(n)}
           \cup {Lattice(n, [k \in 1..n |-> MIN_AMPLITUDE + (IF k = w THEN 1 ELSE 0)]) : w \in Odd(n)}
           \cup {Lattice(n, [k \in 1..n |-> MIN_AMPLITUDE + (IF k <= w THEN 0 ELSE 1)]) : w \in Odd(n)}
           : n \in ScanLengths}

NextCap ==
    \/ \E scanned \in Scans : FindPeaksScan(scanned)
    \/ FindPeaksCap

SpecCap == Init /\ [][NextCap]_vars

----------------------------------------------------------------------------
(* SpecPairs: peaksToFingerprints of either copy, for lists of up to MaxPeaks *)
(* peaks                                                                     *)

\* Cells more than PEAK_NEIGHBORHOOD_SIZE / 2 bins apart in frequency, at frames
\* 10, 11 and 12 after the first (0.46 s, 0.51 s, 0.56 s) and 64, 65 and 76 after
\* it (2.97 s, 3.02 s, 3.53 s).
PeakCells ==
    LET step == PEAK_NEIGHBORHOOD_SIZE \div 2 + 1
        frames == <<0, 10, 11, 11, 12, 64, 65, 76>>
    IN  [k \in 1..Len(frames) |-> <<frames[k], (k - 1) * step>>]

\* The lists findPeaks can return for the cells of I: strongest first, the
\* magnitudes falling or rising along the scan.
PeakLists ==
    UNION {LET idx == SortedIdx(I, Len(PeakCells))
               n == Len(idx)
           IN  {[p \in 1..n |-> Peak(PeakCells[idx[p]][1], PeakCells[idx[p]][2],
                                     MIN_AMPLITUDE + n - p)],
                [p \in 1..n |-> Peak(PeakCells[idx[n + 1 - p]][1], PeakCells[idx[n + 1 - p]][2],
                                     MIN_AMPLITUDE + n - p)]}
           : I \in {J \in SUBSET (1..Len(PeakCells)) : Cardinality(J) <= MaxPeaks}}

NextPairs ==
    \/ \E copy \in Copies : \E peaks \in PeakLists : FindPeaksReturn(copy, peaks)
    \/ PeaksToFingerprints

SpecPairs == Init /\ [][NextPairs]_vars

----------------------------------------------------------------------------
(* SpecStartup: connectToDatabase for every maxRetries up to MaxRetries *)

AttemptOutcomes == {"connect failed", "check failed", "connected"}

NextStartup ==
    \/ \E maxRetries \in 0..MaxRetries : ConnectToDatabase(maxRetries)
    \/ \E outcome \in AttemptOutcomes : ConnectAttempt(outcome)
    \/ ConnectLoopEnd
    \/ ConnectRetry
    \/ ServerListen
    \/ ServerExit

SpecStartup == Init /\ [][NextStartup]_vars

----------------------------------------------------------------------------
(* SpecScratch: passes that run at the same time in one directory *)

Codecs == {"mp3", "wav"}

NextScratch ==
    \/ \E p \in Passes, copy \in Copies, codec \in Codecs : PassStart(p, copy, codec)
    \/ \E p \in Passes : ProbeError(p)
    \/ \E p \in Passes : Probe(p)
    \/ \E p \in Passes : ConvertEnd(p)
    \/ \E p \in Passes : ConvertError(p)
    \/ \E p \in Passes : DecodeStart(p)
    \/ \E p \in Passes : DecodeWrite(p)
    \/ \E p \in Passes, readOk \in BOOLEAN : DecodeEnd(p, readOk)
    \/ \E p \in Passes : DecodeError(p)
    \/ Tick

SpecScratch == Init /\ [][NextScratch]_vars

----------------------------------------------------------------------------
(* Properties of identification *)

\* The time deltas of the match records of song s, in the order of ms.
SongDeltas(ms, s) ==
    LET g == SelectSeq(ms, LAMBDA m : m.songId = s)
    IN  [k \in 1..Len(g) |-> g[k].timeDelta]

\* How many of the deltas ds fall in histogram bin b.
BinCount(ds, b) == Cardinality({k \in 1..Len(ds) : QuantizeDelta(ds[k]) = b})

\* The count of the fullest bin of the histogram of ds.
ModeCount(ds) ==
    Max({0} \cup {BinCount(ds, b) : b \in {QuantizeDelta(ds[k]) : k \in 1..Len(ds)}})

\* How many of the deltas ds lie within the alignment tolerance of the key of bin b.
NearCount(ds, b) == Cardinality({k \in 1..Len(ds) : WithinTolerance(ds[k], b)})

\* The batch of the query that the last lookup probed.
LastBatch == Slice(query, idPos - LOOKUP_BATCH_SIZE, LOOKUP_BATCH_SIZE)

\* The query is the fingerprint list, or a clip of at least MIN_MATCHES
\* fingerprints, of the ingested recording s.
IsClipOf(q, s) == s \in DOMAIN ingested /\ q \in ClipsOf(ingested[s])

\* C1: identifying with the whole fingerprint list of an ingested recording, or
\* with a contiguous clip of it, returns that recording with confidence >= 0.5,
\* also when the recording holds the same hash at several time offsets.
C1_RoundTrip ==
    (/\ idPc = "done"
     /\ Len(query) >= MIN_MATCHES
     /\ \E s \in DOMAIN ingested : IsClipOf(query, s))
    => /\ result.found
       /\ IsClipOf(query, result.songId)
       /\ 2 * result.confNum >= result.confDen

\* C2: every posting the lookup returned yields one match record for every
\* occurrence of its hash in the probed batch, with delta = stored time - the
\* time of that occurrence; a hash occurring k times yields k records per posting.
C2_EveryOccurrencePairs ==
    idPc = "done" =>
        LET pairs == {p \in (1..Len(postings)) \X (1..Len(LastBatch)) :
                         postings[p[1]].hashValue = LastBatch[p[2]].hash}
        IN  /\ Len(batchMatches) = Cardinality(pairs)
            /\ \A p \in pairs : \E k \in 1..Len(batchMatches) :
                   /\ batchMatches[k].songId = postings[p[1]].songId
                   /\ batchMatches[k].timeOffset = postings[p[1]].timeOffset
                   /\ batchMatches[k].timeDelta =
                          postings[p[1]].timeOffset - LastBatch[p[2]].timeOffset

C4_Thresholds ==
    idPc = "done" =>
        /\ \A k \in 1..Len(alignmentScores) :
              LET e == alignmentScores[k]
                  ds == SongDeltas(matches, e.songId)
              IN  /\ Len(ds) >= MIN_MATCHES
                  /\ ModeCount(ds) >= MIN_MATCHES
                  /\ e.score.alignedMatches >= MIN_MATCHES
                  /\ CONFIDENCE_THRESHOLD_INV * NearCount(ds, e.score.timeOffset) >= Len(ds)
                  /\ CONFIDENCE_THRESHOLD_INV * e.score.confNum >= e.score.confDen
        /\ result.found =>
              \E k \in 1..Len(alignmentScores) :
                  /\ alignmentScores[k].songId = result.songId
                  /\ alignmentScores[k].score.alignedMatches = result.alignedMatches
                  /\ alignmentScores[k].score.confNum = result.confNum
                  /\ alignmentScores[k].score.confDen = result.confDen
        /\ alignmentScores = <<>> => result = NoMatch

\* C4 witness: a song is returned while another song with at least MIN_MATCHES
\* match records, its fullest bin holding MIN_MATCHES, is rejected for its confidence.
C4_RejectedAndAccepted ==
    /\ idPc = "done"
    /\ result.found
    /\ \E m \in 1..Len(matches) :
          LET ds == SongDeltas(matches, matches[m].songId)
          IN  /\ ModeCount(ds) >= MIN_MATCHES
              /\ \A k \in 1..Len(alignmentScores) :
                    alignmentScores[k].songId # matches[m].songId

\* C9: the store holds a (recording, hash, time offset) triple at most once: a
\* triple that is ingested again, in a second call or twice in one list, leaves
\* the contents as they were.
C9_TripleStoredOnce ==
    Cardinality({<<fingerprints[j].songId, fingerprints[j].hashValue,
                   fingerprints[j].timeOffset>> : j \in 1..Len(fingerprints)})
        = Len(fingerprints)

----------------------------------------------------------------------------
(* Properties of the choice among scored songs *)

\* combinedScore(a) = combinedScore(b)
CombinedEqual(a, b) == ~CombinedGreater(a, b) /\ ~CombinedGreater(b, a)

\* C5: the returned song has the greatest combined score of the scored songs;
\* among equal combined scores it has the greatest aligned count, and among equal
\* aligned counts the smallest id, whatever the order of the postings.
C5_BestWithTieBreak ==
    (idPc = "done" /\ result.found) =>
        \A k \in 1..Len(alignmentScores) :
            LET e == alignmentScores[k]
            IN  /\ ~CombinedGreater(e.score, result)
                /\ CombinedEqual(e.score, result) =>
                      \/ e.score.alignedMatches < result.alignedMatches
                      \/ /\ e.score.alignedMatches = result.alignedMatches
                         /\ e.songId >= result.songId

----------------------------------------------------------------------------
(* Properties of ingestion and delete *)

\* C6: after an ingestion has failed before Ready (fingerprinting error, or a
\* store error on some batch), the store holds no fingerprint of that recording.
C6_NoPartialAfterFailure ==
    \A w \in Requests :
        ing[w].pc = "failed" =>
            \A j \in 1..Len(fingerprints) : fingerprints[j].songId # ing[w].songId

\* C7: a lookup made at any point of the ingestion of a recording returns, for
\* the hashes it probes, none of the recording's fingerprints or all of them.
C7_NoneOrAll ==
    idPc = "done" =>
        \A w \in Requests :
            ing[w].songId # 0 =>
                LET probed == {LastBatch[k].hash : k \in 1..Len(LastBatch)}
                    all == Cardinality({i \in 1..Len(ing[w].fps) :
                                           ing[w].fps[i].hash \in probed})
                    seen == Cardinality({j \in 1..Len(postings) :
                                            postings[j].songId = ing[w].songId})
                IN  seen = 0 \/ seen = all

\* C8: in every state every stored fingerprint refers to an existing song and
\* to no deleted one, and every lookup returns only fingerprints of songs that
\* exist and have not been deleted, also when a delete falls between the batch
\* writes of the song's ingestion.
C8_DeletionCascade ==
    /\ [](\A j \in 1..Len(fingerprints) :
             fingerprints[j].songId \in songs \ deleted)
    /\ [][idPos' # idPos =>
             \A k \in 1..Len(postings') : postings'[k].songId \in songs' \ deleted']_vars

\* C8 witness: a song was deleted after a batch of its ingestion had been
\* written; the next batch write failed.
C8_DeletedWhileWriting ==
    \E w \in Requests :
        /\ ing[w].pc = "failed"
        /\ ing[w].songId \in deleted
        /\ ing[w].writes # <<>>

\* C10: an ingestion that reached Ready has issued ceil(n / 1000) writes for its
\* n fingerprints, each of 1 to 1000 fingerprints; the writes laid end to end
\* are the list itself: every fingerprint is in exactly one write, in list order.
C10_Batching ==
    \A w \in Requests :
        ing[w].pc = "ready" =>
            LET n == Len(ing[w].fps)
                ws == ing[w].writes
            IN  /\ Len(ws) = (n + INSERT_BATCH_SIZE - 1) \div INSERT_BATCH_SIZE
                /\ \A b \in 1..Len(ws) : Len(ws[b]) >= 1 /\ Len(ws[b]) <= INSERT_BATCH_SIZE
                /\ \A b \in 1..(Len(ws) - 1) : Len(ws[b]) = INSERT_BATCH_SIZE
                /\ Len(ws[Len(ws)]) = n - INSERT_BATCH_SIZE * (Len(ws) - 1)
                /\ \A i \in 1..n :
                      ws[((i - 1) \div INSERT_BATCH_SIZE) + 1][((i - 1) % INSERT_BATCH_SIZE) + 1]
                          = ing[w].fps[i]

\* C10 witness: a list that is not a whole number of batches has been written
\* in more than two writes.
C10_ThreeWrites ==
    /\ ing[1].pc = "ready"
    /\ Len(ing[1].writes) > 2
    /\ Len(ing[1].fps) % INSERT_BATCH_SIZE # 0

----------------------------------------------------------------------------
(* Properties of the chunked lookup *)

\* How often the record m occurs in the sequence ms.
Occurrences(ms, m) == Cardinality({k \in 1..Len(ms) : ms[k] = m})

\* The sequences a and b hold the same records the same number of times.
SameRecords(a, b) ==
    /\ Len(a) = Len(b)
    /\ \A k \in 1..Len(a) : Occurrences(a, a[k]) = Occurrences(b, a[k])

\* C11: the match list accumulated over the chunks of the query holds the
\* records that one lookup of all the query's hashes at once produces, wherever
\* the chunk boundaries fall.
C11_ChunkingTransparent ==
    idPc = "done" =>
        SameRecords(matches,
                    FindMatchingFingerprints(query,
                        FindMany(fingerprints, {query[k].hash : k \in 1..Len(query)})))

----------------------------------------------------------------------------
(* Properties of the ingestion pipelines *)

\* The uploads whose pipeline is between its start and its end.
UploadsInProgress == {w \in Pipelines : ing[w].pc = "persist"}

\* The files of the bulk run whose processSongFile is between its start and its end.
FilesInProgress ==
    IF bulk.pc = "off" THEN {}
    ELSE {f \in 1..Len(bulk.files) :
             bulk.file[f].pc \in {"check", "fingerprint", "create", "persist"}}

\* C12: at any time at most C_ING = 2 uploads made through POST /api/add_song
\* are in their pipeline, and at most maxConcurrent files of a bulk run are.
C12_BoundedConcurrency ==
    /\ Cardinality(UploadsInProgress) <= MAX_CONCURRENT
    /\ bulk.pc # "off" => Cardinality(FilesInProgress) <= bulk.maxConcurrent

\* The bulk half of C12 alone.
BulkBounded == bulk.pc # "off" => Cardinality(FilesInProgress) <= bulk.maxConcurrent

\* C17: a file whose (artist, title) is already stored is skipped and nothing
\* is written for it when skipExisting is set; with --force (skipExisting
\* false) it is not skipped: it goes on to be fingerprinted and stored again.
C17_ForceReprocesses ==
    bulk.pc # "off" =>
        \A f \in 1..Len(bulk.files) :
            bulk.file[f].existing =>
                IF bulk.skipExisting
                THEN bulk.file[f].pc = "skipped" /\ bulk.file[f].songId = 0
                ELSE bulk.file[f].pc # "skipped"

----------------------------------------------------------------------------
(* Properties of the identify request *)

\* C13: when a store lookup has failed during identification, the caller is
\* answered with an error; the answer "not found" is given only after the
\* lookups have succeeded and no candidate has passed the thresholds.
C13_StoreFailureIsNotNoMatch ==
    svc.pc = "responded" =>
        /\ idPc = "error" => svc.http \notin {"200 not found", "200 identified"}
        /\ (svc.http = "200 not found" /\ idPc # "idle") =>
               (idPc = "done" /\ ~result.found)

\* C14: an upload whose fingerprint pass yields nothing fails without creating a
\* song, and an identification whose fingerprint pass yields nothing is
\* answered with an error, not with the answer given for no match.
C14_NoFingerprintsSurfaced ==
    /\ \A w \in Pipelines : (ing[w].pc = "failed" /\ ing[w].writes = <<>>) =>
          (ing[w].songId = 0 \/ ing[w].songId \in songs \cup deleted)
    /\ nextSongId - 1 = Cardinality({w \in Pipelines : ing[w].songId # 0})
    /\ (svc.pc = "responded" /\ svc.error = "NoFingerprints") =>
          svc.http \notin {"200 not found", "200 identified"}

\* C18: when the write of the queries row has failed, the caller still gets the
\* result of the matcher: the match with its song id and confidence, or no
\* match; no error is reported.
C18_AnalyticsNeverFails ==
    (svc.pc = "responded" /\ svc.analytics = "failed") =>
        /\ svc.error = "none"
        /\ idPc = "done"
        /\ IF result.found
           THEN /\ svc.http = "200 identified"
                /\ svc.success
                /\ svc.songId = result.songId
                /\ svc.confNum = result.confNum /\ svc.confDen = result.confDen
           ELSE /\ svc.http = "200 not found"
                /\ ~svc.success

\* C18 witness: a match is answered although the analytics write failed.
C18_MatchDespiteFailedWrite ==
    /\ svc.pc = "responded"
    /\ svc.analytics = "failed"
    /\ svc.http = "200 identified"

----------------------------------------------------------------------------
(* Properties of the fingerprint pass *)

\* C15: for an input of L >= WINDOW_SIZE samples the spectrogram has exactly
\* floor((L - WINDOW_SIZE) / HOP_LENGTH) + 1 frames, frame t starts at sample
\* t * HOP_LENGTH, and no window extends past the end of the input.
C15_FrameCount ==
    (dsp.pass \in {"spectrogram", "peaks", "fingerprints"} /\ dsp.length >= WINDOW_SIZE) =>
        LET starts == dsp.spectrogram.starts
        IN  /\ Len(starts) = (dsp.length - WINDOW_SIZE) \div HOP_LENGTH + 1
            /\ \A t \in 1..Len(starts) :
                  /\ starts[t] = (t - 1) * HOP_LENGTH
                  /\ starts[t] + WINDOW_SIZE <= dsp.length

\* C15 witness: an input that ends one sample short of a further hop has been
\* framed; the last window ends before the end of the input.
C15_PartialHopFramed ==
    /\ dsp.pass = "spectrogram"
    /\ dsp.length = WINDOW_SIZE + MaxHops * HOP_LENGTH + HOP_LENGTH - 1
    /\ Len(dsp.spectrogram.starts) = MaxHops + 1

\* C16: a pass over fewer than WINDOW_SIZE samples fails with the error kind
\* InputTooShort (it neither fails with another error nor returns a list), and
\* the caller of identify is answered with that error.
C16_InputTooShort ==
    /\ (dsp.pass = "thrown" /\ dsp.length < WINDOW_SIZE) => dsp.error = "InputTooShort"
    /\ dsp.pass = "fingerprints" => dsp.length >= WINDOW_SIZE
    /\ (svc.pc = "responded" /\ svc.error \in {"TypeError", "InputTooShort"}) =>
          svc.http \notin {"200 not found", "200 identified"}

\* The peaks in the order (time, frequency).
ByTimeThenFrequency(peaks, bins) ==
    LET n == Len(peaks)
        before(i, j) == \/ peaks[i].time < peaks[j].time
                        \/ peaks[i].time = peaks[j].time /\ peaks[i].frequency < peaks[j].frequency
                        \/ peaks[i].time = peaks[j].time /\ peaks[i].frequency = peaks[j].frequency /\ i < j
        rank(i) == Cardinality({j \in 1..n : before(j, i)})
    IN  [p \in 1..n |-> peaks[CHOOSE i \in 1..n : rank(i) = p - 1]]

\* C19: the list the pair hasher goes through is ordered by time and, within a
\* frame, by frequency, so the fingerprints are those of the first FANOUT valid
\* targets in (time, frequency) order, whatever the magnitudes are.
C19_TimeFrequencyOrder ==
    dsp.pass = "fingerprints" =>
        /\ \A i \in 1..Len(dsp.peaks) : \A j \in (i + 1)..Len(dsp.peaks) :
              \/ dsp.peaks[i].time < dsp.peaks[j].time
              \/ /\ dsp.peaks[i].time = dsp.peaks[j].time
                 /\ dsp.peaks[i].frequency < dsp.peaks[j].frequency
        /\ dsp.fingerprints =
              PairUp(ByTimeThenFrequency(dsp.peaks, dsp.spectrogram.bins), 1, dsp.spectrogram.bins)

\* The cells of the matrix within the closed square of half-width
\* floor(PEAK_NEIGHBORHOOD_SIZE / 2) around (t, f), other than (t, f).
Square(sp, t, f) ==
    LET half == PEAK_NEIGHBORHOOD_SIZE \div 2
    IN  {c \in (Max({0, t - half})..Min({Len(sp.starts) - 1, t + half}))
                 \X (Max({0, f - half})..Min({sp.bins - 1, f + half})) : c # <<t, f>>}

\* C20: a cell is among the peaks exactly when its magnitude is at least
\* MIN_AMPLITUDE and every other cell of the matrix in its square is strictly
\* smaller; each such cell is a peak once, with its magnitude.
C20_PeakSelection ==
    dsp.pass = "peaks" =>
        LET sp == dsp.spectrogram
        IN  /\ \A c \in (0..(Len(sp.starts) - 1)) \X (0..(sp.bins - 1)) :
                  (\E i \in 1..Len(dsp.peaks) :
                       dsp.peaks[i].time = c[1] /\ dsp.peaks[i].frequency = c[2])
                  <=> /\ Mag(sp, c[1], c[2]) >= MIN_AMPLITUDE
                      /\ \A d \in Square(sp, c[1], c[2]) : Mag(sp, d[1], d[2]) < Mag(sp, c[1], c[2])
            /\ \A i \in 1..Len(dsp.peaks) :
                  /\ dsp.peaks[i].magnitude = Mag(sp, dsp.peaks[i].time, dsp.peaks[i].frequency)
                  /\ \A j \in 1..Len(dsp.peaks) :
                        (dsp.peaks[j].time = dsp.peaks[i].time
                         /\ dsp.peaks[j].frequency = dsp.peaks[i].frequency) => j = i

\* C20 witness: two cells of equal magnitude above the floor, in each other's
\* square at the corner of the matrix, have been scanned and neither is a peak.
C20_PlateauAtTheEdge ==
    LET sp == dsp.spectrogram
        t == Len(sp.starts) - 1
        f == sp.bins - 1
        g == f - PEAK_NEIGHBORHOOD_SIZE \div 2
    IN  /\ dsp.pass = "peaks"
        /\ DOMAIN sp.spikes = {<<t, f>>, <<t, g>>}
        /\ Mag(sp, t, f) = MIN_AMPLITUDE + 1
        /\ Mag(sp, t, g) = MIN_AMPLITUDE + 1
        /\ dsp.peaks = <<>>

----------------------------------------------------------------------------
(* Bounds of the score *)

\* C30: a returned match has MIN_MATCHES <= alignedMatches <=
\* totalQueryFingerprints = |Q| and 0 < confidence <= 1, so its combined score
\* confidence * (alignedMatches / |Q|) is at most 1.
C30_ScoreBounds ==
    (idPc = "done" /\ result.found) =>
        /\ result.totalQueryFingerprints = Len(query)
        /\ MIN_MATCHES <= result.alignedMatches
        /\ result.alignedMatches <= result.totalQueryFingerprints
        /\ 0 < result.confNum /\ result.confNum <= result.confDen
        /\ result.confNum * result.alignedMatches <= result.confDen * result.totalQueryFingerprints

----------------------------------------------------------------------------
(* Properties of the cut of findPeaks *)

\* The greatest magnitude that at least MAX_PEAKS of the peaks reach.
CutOff(scanned) ==
    Max({v \in {scanned[i].magnitude : i \in 1..Len(scanned)} :
            Len(SelectSeq(scanned, LAMBDA p : p.magnitude >= v)) >= MAX_PEAKS})

\* The peaks to keep: those above the cut-off magnitude and, of those at it,
\* the first of the scan (earliest time, then lowest frequency) that fit.
Kept(scanned) ==
    IF Len(scanned) <= MAX_PEAKS THEN {scanned[i] : i \in 1..Len(scanned)}
    ELSE LET cut == CutOff(scanned)
             above == SelectSeq(scanned, LAMBDA p : p.magnitude > cut)
             at == SelectSeq(scanned, LAMBDA p : p.magnitude = cut)
             room == MAX_PEAKS - Len(above)
         IN  {above[i] : i \in 1..Len(above)} \cup {at[i] : i \in 1..room}

\* C21: when more than MAX_PEAKS cells qualify, exactly the MAX_PEAKS peaks of
\* greatest magnitude are returned, ties at the cut-off going to the earliest
\* time and then the lowest frequency; when at most MAX_PEAKS qualify, none is
\* dropped.
C21_PeakCap ==
    (dsp.pass = "peaks" /\ dsp.error = "none") =>
        /\ Len(dsp.peaks) = Min({Len(dsp.scanned), MAX_PEAKS})
        /\ {dsp.peaks[i] : i \in 1..Len(dsp.peaks)} = Kept(dsp.scanned)
        /\ \A i \in 1..(Len(dsp.peaks) - 1) : dsp.peaks[i].magnitude >= dsp.peaks[i + 1].magnitude

\* C21 witness: of MAX_PEAKS + MaxDropped peaks of one magnitude, the last of
\* the scan have been dropped.
C21_TieAtTheCutOff ==
    /\ dsp.pass = "peaks"
    /\ Len(dsp.scanned) = MAX_PEAKS + MaxDropped
    /\ \A i \in 1..Len(dsp.scanned) : dsp.scanned[i].magnitude = MIN_AMPLITUDE
    /\ Len(dsp.peaks) = MAX_PEAKS
    /\ dsp.peaks[MAX_PEAKS] = dsp.scanned[MAX_PEAKS]

----------------------------------------------------------------------------
(* Properties of the pair hasher *)

\* The targets the anchor i is paired with: the first three later peaks, in
\* list order, whose distance in time is between 0.5 s and 3.0 s.
Chosen(peaks, i) ==
    LET valid == {j \in (i + 1)..Len(peaks) :
                     /\ 2 * (peaks[j].time - peaks[i].time) * HOP_LENGTH >= SAMPLE_RATE
                     /\ (peaks[j].time - peaks[i].time) * HOP_LENGTH <= 3 * SAMPLE_RATE}
    IN  {j \in valid : Cardinality({k \in valid : k < j}) < 3}

\* C22: the fingerprints are, anchor after anchor, those of the first valid
\* targets in list order, at most three for an anchor, each within the window
\* and with the anchor's time; the time offsets never decrease along the list.
C22_WindowAndFanout ==
    dsp.pass = "fingerprints" =>
        LET peaks == dsp.peaks
            fps == dsp.fingerprints
            pairs == {<<i, j>> \in (1..Len(peaks)) \X (1..Len(peaks)) : j \in Chosen(peaks, i)}
            place(i, j) == Cardinality({q \in pairs : q[1] < i \/ (q[1] = i /\ q[2] <= j)})
        IN  /\ Len(fps) = Cardinality(pairs)
            /\ \A q \in pairs :
                  /\ place(q[1], q[2]) <= Len(fps)
                  /\ fps[place(q[1], q[2])] =
                        [hash |-> CreateHash(peaks[q[1]].frequency, peaks[q[2]].frequency,
                                             peaks[q[2]].time - peaks[q[1]].time,
                                             dsp.spectrogram.bins),
                         timeOffset |-> peaks[q[1]].time]
            /\ \A k \in 1..(Len(fps) - 1) : fps[k].timeOffset <= fps[k + 1].timeOffset

\* The same for the passes of the class in song-matcher.service.ts alone.
C22_InSongMatcherCopy == dsp.copy = "song-matcher.service.ts" => C22_WindowAndFanout

----------------------------------------------------------------------------
(* Properties of the start of the server *)

\* C23: connectToDatabase makes at most maxRetries attempts, returns only
\* after an attempt that connected, makes no attempt after one that connected,
\* and throws after maxRetries failed attempts; the server listens only after
\* a normal return, and otherwise the process exits with code 1.
C23_ConnectRetry ==
    LET n == Len(boot.outcomes)
    IN  /\ n <= boot.maxRetries
        /\ \A k \in 1..(n - 1) : boot.outcomes[k] # "connected"
        /\ boot.pc \in {"returned", "listening"} =>
              (n >= 1 /\ boot.outcomes[n] = "connected")
        /\ boot.pc \in {"thrown", "exited"} =>
              (n = boot.maxRetries /\ \A k \in 1..n : boot.outcomes[k] # "connected")
        /\ boot.listening => boot.pc = "listening"
        /\ boot.exited => (boot.exitCode = 1 /\ ~boot.listening)

\* The same for the calls with maxRetries >= 1.
C23_WithOneAttemptOrMore == boot.maxRetries >= 1 => C23_ConnectRetry

----------------------------------------------------------------------------
(* Properties of the temporary files *)

Ended(p) == scratch.pass[p].pc \in {"resolved", "thrown"}

\* C24: when a pass has returned or thrown, on whichever path, no raw file
\* and no converted file that the pass wrote exists any more.
C24_ScratchRelease ==
    \A p \in Passes :
        Ended(p) => \A f \in scratch.files : f.writer # p

\* The same for the passes that did not fail in the handler of "end".
C24_ReleasedUnlessEndFails ==
    \A p \in Passes :
        (Ended(p) /\ scratch.pass[p].error \notin {"read", "unlink"})
            => \A f \in scratch.files : f.writer # p

\* C26: a pass reads the raw samples that it wrote itself, and no pass reads,
\* overwrites or deletes a raw file that holds the samples of another pass.
C26_ScratchIsolation ==
    /\ \A p \in Passes :
          scratch.pass[p].pc = "resolved" => scratch.pass[p].read = p
    /\ \A t \in scratch.touched : t.kind # "raw"

\* The same for passes that named their raw files in different milliseconds.
C26_IsolatedWhenStampsDiffer ==
    (\A p, q \in Passes :
        (p # q /\ scratch.pass[p].raw >= 0) => scratch.pass[p].raw # scratch.pass[q].raw)
    => C26_ScratchIsolation

----------------------------------------------------------------------------
(* Properties of the bulk run *)

\* C25: when a run with skipExisting and maxConcurrent >= 2 has finished, no
\* two stored songs have the same (artist, title), compared without case.
C25_OneSongPerKey ==
    (bulk.pc = "done" /\ bulk.skipExisting /\ bulk.maxConcurrent >= 2) =>
        \A a, b \in songs : songKey[a] = songKey[b] => a = b

\* The same for the runs in which no two files have the same (artist, title).
C25_WhenKeysDiffer ==
    (bulk.pc = "done" /\ bulk.skipExisting /\ bulk.maxConcurrent >= 2
        /\ \A f, g \in 1..Len(bulk.files) :
              bulk.files[f].key = bulk.files[g].key => f = g) =>
        \A a, b \in songs : songKey[a] = songKey[b] => a = b

\* The files of the run whose processSongFile ended with this outcome.
FilesWith(outcome) == {f \in 1..Len(bulk.files) : bulk.file[f].pc = outcome}

\* C29: at the end of the run successCount is the number of files whose song
\* and fingerprints were all stored, and errorCount the number of files whose
\* fingerprinting or store write failed.
C29_SummaryCounters ==
    bulk.pc = "done" =>
        /\ bulk.successCount = Cardinality(FilesWith("stored"))
        /\ bulk.errorCount = Cardinality(FilesWith("failed"))

\* What the counters hold instead: every file counts as a success.
C29_EveryFileCountsAsSuccess ==
    bulk.pc = "done" =>
        /\ bulk.successCount = Len(bulk.files)
        /\ bulk.errorCount = 0

\* processSongFile of file f has ended and the finally block has run.
Processed(f) == bulk.file[f].pc \in {"skipped", "failed", "empty", "stored"}

HasSlot(f) ==
    /\ bulk.pc \in {"running", "done"}
    /\ f <= Len(bulk.files)
    /\ bulk.file[f].pc # "waiting"

AllSlotsFree == \A k \in 1..Len(bulk.semaphore) : bulk.semaphore[k] = 0

----------------------------------------------------------------------------
(* Properties of the statistics *)

\* successfulQueries of stats() is the number of identify calls so far that
\* returned a match.
StatsCountMatches ==
    GetStats.successfulQueries = userQueries.identified

\* No step makes successfulQueries smaller.
StatsNeverDecrease ==
    GetStats'.successfulQueries >= GetStats.successfulQueries

\* C27: after any sequence of add, identify and delete, successfulQueries of
\* stats() is the number of identify calls so far that returned a match, and
\* it never decreases: deleting an identified recording leaves it as it is.
C27_StatsConsistency ==
    []StatsCountMatches /\ [][StatsNeverDecrease]_vars

\* What holds instead: successfulQueries is never more than that number.
C27_NeverMoreThanMatches ==
    GetStats.successfulQueries <= userQueries.identified

\* Deleting is the one step that makes successfulQueries smaller.
C27_OnlyDeleteDecreases ==
    [][songs' = songs => StatsNeverDecrease]_vars

====
